---- MODULE Spec2Model ----
(***************************************************************************)
(* Workflow orchestration of the code-generation pipeline.                 *)
(*                                                                         *)
(* The repository holds two dispatchers over the same twelve-state machine:*)
(*   - GroupChatWorkflowManager (src/workflow.py), here "root";             *)
(*   - FSMWorkflowOrchestrator (src/src/core/workflow.py), here "core";     *)
(* and a third, seven-state machine in src/fsm.py.                          *)
(*                                                                         *)
(* The state machines are python-statemachine classes.  What the model      *)
(* takes from that library: an event sent in a state that has no            *)
(* transition for it raises TransitionNotAllowed and leaves the state       *)
(* alone; final states have no outgoing transitions; state ids equal the    *)
(* attribute names.  The order of StateMachine.events is not fixed by the   *)
(* repository, so it is a choice made in Init (eventOrder).  The calls      *)
(* trigger(name) and has_transition(name) of src/workflow.py are read by    *)
(* their names: send the event of that name; the machine has an event of    *)
(* that name.                                                               *)
(*                                                                         *)
(* A run is one chat: the dispatcher is called once to start it and then    *)
(* once per answer of the participant it selected, until it returns None    *)
(* or an exception leaves it.                                               *)
(*                                                                         *)
(* The module also holds StrictJSONAgent.process_last_message, the code     *)
(* scanner and executor of src/security-executor-py.py, and the response    *)
(* cache of src/src/cost/optimizer.py.  A snippet of code is a sequence of  *)
(* lines taken from a catalogue; for each line the tables give what         *)
(* ast.parse, the AST walk and the regular expressions of the scanner find  *)
(* in it.  The key-value store is Redis: a key set with SETEX exists until  *)
(* its time-to-live has passed, and SCAN gives the matching keys in an      *)
(* order of the store's choosing.                                           *)
(***************************************************************************)
EXTENDS Integers, Sequences, FiniteSets, TLC

VARIABLES
    impl,          \* which dispatcher runs this run: "root" or "core"
    eventOrder,    \* order of CodeGenerationFSM.events: "declared" or "sorted"
    wfState,       \* active_workflow.current_state.value / workflow.current_state.value
    history,       \* WorkflowContext.history (root)
    data,          \* WorkflowContext.data (root): agent name -> latest result
    errors,        \* WorkflowContext.errors
    retry_count,   \* WorkflowContext.retry_count
    selected,      \* what the last dispatcher call returned
    attempt,       \* what the last dispatcher call did to the state machine
    scenario,      \* progress of the in-order all-success scenario
    handled,       \* what the last dispatcher call was given as the newest message
    simpleState,   \* a CodeGenerationWorkflow of src/fsm.py driven by events
    fsmState,      \* a CodeGenerationFSM of src/workflow.py driven by events
    coreFsmState,  \* a CodeGenerationWorkflow of src/src/core/workflow.py driven by events
    fsmVisited,    \* the states that CodeGenerationFSM has been in
    coreFsmVisited, \* the states that CodeGenerationWorkflow has been in
    vResponse,     \* the response last given to validate_agent_response
    vResult,       \* what validate_agent_response returned for it
    pName,         \* name of the agent whose process_last_message was called last
    pMessages,     \* the message list it was given
    pResult,       \* what it returned
    snippet,       \* the generated code, line by line
    docker_client, \* SecureCodeExecutor.docker_client is set
    scanLanguage,  \* language of a scan_code call, when it was the latest call
    security_scan, \* what that call returned
    execLanguage,  \* language of an execute_code call, when it was the latest call
    execResult,    \* what that call returned, and where the code ran
    redis_client,  \* IntelligentCostOptimizer.redis_client is set
    now,           \* the clock of the key-value store
    store,         \* the keys of the store: value and expiry time
    cached,        \* what the last get_cached_response returned
    request,       \* the request given to the cost optimizer
    complexity,    \* what analyze_request_complexity returned for it
    redis_fault,   \* the store is down: every operation on the client raises
    daily_cost,    \* the keys daily_cost:<month>-<day> of the store
    today,         \* the day of the month
    routed,        \* what the last route_request gave its caller
    checkDay,      \* the day a running _check_budget_exceeded reads next; 0: none runs
    monthly_cost,  \* monthly_cost of that call
    budget_exceeded, \* what the last _check_budget_exceeded returned
    execute_response, \* what execute / execute_workflow gave back for the run
    runs,          \* concurrent calls: the state machine and context each call made
    active_workflow, \* root: the call whose objects active_workflow / active_context hold
    active_workflows, \* core: the keys of active_workflows
    calls,         \* concurrent calls: what the dispatcher returned last, and the response
    model_configs, \* the tiers the configuration manager has a model configuration for
    agents,        \* AgentOrchestrator.agents: agent name -> name of the participant
    got            \* the last get_agent call: the name asked for and what it returned

runVars == <<impl, eventOrder, wfState, history, data, errors, retry_count,
             selected, attempt, scenario, handled>>
fsmVars == <<simpleState, fsmState, coreFsmState, fsmVisited, coreFsmVisited>>
valVars == <<vResponse, vResult>>
procVars == <<pName, pMessages, pResult>>
boxVars == <<snippet, docker_client, scanLanguage, security_scan, execLanguage,
             execResult>>
cacheVars == <<redis_client, now, store, cached>>
cplxVars == <<request, complexity>>
routeVars == <<redis_fault, daily_cost, today, routed, checkDay,
               monthly_cost, budget_exceeded>>
orchVars == <<execute_response, runs, active_workflow, active_workflows, calls>>
regVars == <<model_configs, agents, got>>
vars == <<runVars, fsmVars, valVars, procVars, boxVars, cacheVars, cplxVars,
          routeVars, orchVars, regVars>>

-----------------------------------------------------------------------------
(* Bounds of the model *)

\* number of distinct result payloads a participant can return
NumPayloads == 2

-----------------------------------------------------------------------------
(* Names *)

\* JSON null / Python None
NULL == "null"

\* what a dispatcher call gives its caller besides an agent
None == "None"
Raised == "Raised"
NotStarted == "NotStarted"

\* the concurrent calls of execute / execute_workflow
Calls == {"first", "second"}

\* result of sending an event that the current state has no transition for
TransitionNotAllowed == "TransitionNotAllowed"

WorkflowState ==
    <<"initialized", "requirements_analyzed", "architecture_designed",
      "prompt_engineered", "code_generated", "code_reviewed",
      "security_validated", "tests_executed", "documentation_generated",
      "quality_approved", "completed", "failed">>

FinalStates == {"completed", "failed"}

States == {WorkflowState[i] : i \in 1..Len(WorkflowState)}

\* position of a state in the pipeline (1 = initialized ... 11 = completed)
StageIndex(s) == CHOOSE i \in 1..Len(WorkflowState) : WorkflowState[i] = s

-----------------------------------------------------------------------------
(* The state machines: sets of <<event, source, target>> *)

FailFromAnySources ==
    {"initialized", "requirements_analyzed", "architecture_designed",
     "prompt_engineered", "code_generated", "code_reviewed",
     "security_validated", "tests_executed", "documentation_generated",
     "quality_approved"}

\* faulty variant: analyze_requirements skips requirements_analyzed
ForwardTransitionsSkipping ==
    {<<"analyze_requirements", "initialized", "architecture_designed">>,
     <<"design_architecture", "requirements_analyzed", "architecture_designed">>,
     <<"engineer_prompt", "architecture_designed", "prompt_engineered">>,
     <<"generate_code", "prompt_engineered", "code_generated">>,
     <<"review_code", "code_generated", "code_reviewed">>,
     <<"validate_security", "code_reviewed", "security_validated">>,
     <<"execute_tests", "security_validated", "tests_executed">>,
     <<"generate_documentation", "tests_executed", "documentation_generated">>,
     <<"approve_quality", "documentation_generated", "quality_approved">>,
     <<"complete_workflow", "quality_approved", "completed">>}

ForwardTransitions ==
    {<<"analyze_requirements", "initialized", "requirements_analyzed">>,
     <<"design_architecture", "requirements_analyzed", "architecture_designed">>,
     <<"engineer_prompt", "architecture_designed", "prompt_engineered">>,
     <<"generate_code", "prompt_engineered", "code_generated">>,
     <<"review_code", "code_generated", "code_reviewed">>,
     <<"validate_security", "code_reviewed", "security_validated">>,
     <<"execute_tests", "security_validated", "tests_executed">>,
     <<"generate_documentation", "tests_executed", "documentation_generated">>,
     <<"approve_quality", "documentation_generated", "quality_approved">>,
     <<"complete_workflow", "quality_approved", "completed">>}

\* faulty variant: retry_from_review leads to completed
RetryTransitionsToCompleted ==
    {<<"retry_from_review", "code_reviewed", "completed">>,
     <<"retry_from_security", "security_validated", "code_generated">>,
     <<"retry_from_tests", "tests_executed", "code_generated">>,
     <<"retry_from_quality", "quality_approved", "architecture_designed">>}

RetryTransitions ==
    {<<"retry_from_review", "code_reviewed", "prompt_engineered">>,
     <<"retry_from_security", "security_validated", "code_generated">>,
     <<"retry_from_tests", "tests_executed", "code_generated">>,
     <<"retry_from_quality", "quality_approved", "architecture_designed">>}

FailTransitions == {<<"fail_from_any", s, "failed">> : s \in FailFromAnySources}

\* CodeGenerationFSM of src/workflow.py
CodeGenerationFSM == ForwardTransitions \cup FailTransitions \cup RetryTransitions

\* CodeGenerationWorkflow of src/src/core/workflow.py
CodeGenerationWorkflow == ForwardTransitions \cup FailTransitions \cup RetryTransitions

\* CodeGenerationWorkflow of src/fsm.py
SimpleStates ==
    {"initialized", "requirements_analyzed", "architecture_designed",
     "code_generated", "security_validated", "completed", "failed"}

SimpleWorkflow ==
    {<<"analyze_requirements", "initialized", "requirements_analyzed">>,
     <<"design_architecture", "requirements_analyzed", "architecture_designed">>,
     <<"generate_code", "architecture_designed", "code_generated">>,
     <<"validate_security", "code_generated", "security_validated">>,
     <<"complete_workflow", "security_validated", "completed">>,
     <<"fail_workflow", "requirements_analyzed", "failed">>,
     <<"fail_workflow", "architecture_designed", "failed">>,
     <<"fail_workflow", "code_generated", "failed">>,
     <<"fail_workflow", "security_validated", "failed">>}

EventNames(machine) == {t[1] : t \in machine}

\* is there a transition of this event out of this state
Allowed(machine, event, state) ==
    \E t \in machine : t[1] = event /\ t[2] = state

\* sending an event: the target state, or TransitionNotAllowed
Send(machine, event, state) ==
    IF Allowed(machine, event, state)
    THEN (CHOOSE t \in machine : t[1] = event /\ t[2] = state)[3]
    ELSE TransitionNotAllowed

\* StateMachine.events in the order the class body declares them
EventsDeclared ==
    <<"analyze_requirements", "design_architecture", "engineer_prompt",
      "generate_code", "review_code", "validate_security", "execute_tests",
      "generate_documentation", "approve_quality", "complete_workflow",
      "fail_from_any", "retry_from_review", "retry_from_security",
      "retry_from_tests", "retry_from_quality">>

\* StateMachine.events in attribute-name order (the metaclass collects the
\* class attributes sorted by name)
EventsSorted ==
    <<"analyze_requirements", "approve_quality", "complete_workflow",
      "design_architecture", "engineer_prompt", "execute_tests",
      "fail_from_any", "generate_code", "generate_documentation",
      "retry_from_quality", "retry_from_review", "retry_from_security",
      "retry_from_tests", "review_code", "validate_security">>

Events(order) == IF order = "sorted" THEN EventsSorted ELSE EventsDeclared

-----------------------------------------------------------------------------
(* Participants and messages *)

AgentNames ==
    {"SystemArchitect", "PromptEngineer", "CodeGenerator", "CodeReviewer",
     "SecurityValidator", "TestRunner", "DocumentationGenerator",
     "QualityGate", "Executor"}

\* AgentOrchestrator.get_agent: the agent of that name, or None
GetAgent(agent_name) == IF agent_name \in AgentNames THEN agent_name ELSE None

\* the five fields of the envelope
EnvelopeFields == {"agent", "action", "status", "result", "next_agent"}

StatusValues == {"success", "error", "pending"}

Payloads == 1..NumPayloads

\* result payload of a response without a "result" key: response.get("result", {})
EmptyResult == 0

\* A message content.  kind: "notjson" (json.loads raises), "array" (valid
\* JSON that is no object) or "object"; for an object, keys is the set of
\* keys present and the other fields give the values of the keys present.
NotJSON ==
    [kind |-> "notjson", keys |-> {}, agent |-> NULL, status |-> NULL,
     result |-> EmptyResult, next_agent |-> NULL]

JSONArray ==
    [kind |-> "array", keys |-> {}, agent |-> NULL, status |-> NULL,
     result |-> EmptyResult, next_agent |-> NULL]

\* the message execute / execute_workflow starts the chat with
InitialMessage ==
    [kind |-> "object", keys |-> {"action", "requirements", "metadata"},
     agent |-> NULL, status |-> NULL, result |-> EmptyResult, next_agent |-> NULL]

\* dict.get(key): the value, or None when the key is absent
Get(m, k) == IF k \in m.keys THEN m[k] ELSE NULL

\* the StructuredResult shape of the data model
IsStructuredResult(m) ==
    /\ m.kind = "object"
    /\ EnvelopeFields \subseteq m.keys
    /\ m.status \in StatusValues

-----------------------------------------------------------------------------
(* AgentOrchestrator.validate_agent_response, src/src/core/agents.py *)

RequiredFields == <<"agent", "action", "status", "result", "next_agent">>

\* what a call gives back: a value, or an exception
Returns(v) == [raised |-> FALSE, value |-> v]
Raises == [raised |-> TRUE, value |-> FALSE]

\* faulty variant: the presence loop alone, with no look at the value of status
ValidateAgentResponseNoStatusCheck(response) ==
    Returns(\A i \in 1..Len(RequiredFields) : RequiredFields[i] \in response.keys)

\* the loop over required_fields returns False at the first missing field;
\* only then is response["status"] read (a KeyError if the key were absent)
ValidateAgentResponse(response) ==
    IF \E i \in 1..Len(RequiredFields) : RequiredFields[i] \notin response.keys
    THEN Returns(FALSE)
    ELSE IF "status" \notin response.keys THEN Raises
    ELSE IF response.status \notin {"success", "error", "pending"} THEN Returns(FALSE)
    ELSE Returns(TRUE)

(* AgentOrchestrator.validate_agent_response, src/agents.py: four keys, and
   no look at the value of status.  "k in response" of a JSON array is False. *)
RootRequired == {"agent", "action", "status", "result"}

RootValidateAgentResponse(response) ==
    /\ response.kind = "object"
    /\ RootRequired \subseteq response.keys

-----------------------------------------------------------------------------
(* The run context and what a dispatcher call gives back *)

\* WorkflowContext after construction, with the state machine in its initial state
NewRun ==
    [wfState |-> "initialized", history |-> <<>>,
     data |-> [a \in {} |-> EmptyResult], errors |-> <<>>, retry_count |-> 0]

\* the run after the call, what the call returned (an agent name, None or
\* Raised for an exception that leaves the dispatcher), and what the call did
\* to the state machine: "none", "fired" or "rejected" (TransitionNotAllowed)
Outcome(run, ret, att) == [run |-> run, ret |-> ret, attempt |-> att]

\* dict[key] = value
SetItem(d, k, v) == [x \in (DOMAIN d) \cup {k} |-> IF x = k THEN v ELSE d[x]]

-----------------------------------------------------------------------------
(* GroupChatWorkflowManager, src/workflow.py *)

RootRetryCeiling == 3

Chain ==
    <<"SystemArchitect", "PromptEngineer", "CodeGenerator", "CodeReviewer",
      "SecurityValidator", "TestRunner", "DocumentationGenerator", "QualityGate">>

\* chain.index(name), counted from 1; 0 stands for the ValueError
ChainIndex(name) ==
    IF \E i \in 1..Len(Chain) : Chain[i] = name
    THEN CHOOSE i \in 1..Len(Chain) : Chain[i] = name
    ELSE 0

\* WorkflowContext.update
ContextUpdate(run, agent_name, response) ==
    [run EXCEPT !.history = Append(@, [agent |-> agent_name, response |-> response]),
                !.data = SetItem(@, agent_name,
                                 IF "result" \in response.keys THEN response.result
                                 ELSE EmptyResult)]

\* faulty variant: the error is recorded and the counter is left alone
ContextAddErrorUncounted(run, agent_name, error_response) ==
    [run EXCEPT !.errors = Append(@, [agent |-> agent_name, error |-> error_response])]

\* WorkflowContext.add_error
ContextAddError(run, agent_name, error_response) ==
    [run EXCEPT !.errors = Append(@, [agent |-> agent_name, error |-> error_response]),
                !.retry_count = @ + 1]

\* self.active_workflow.<event>() or .trigger(<event>) followed by `after`:
\* the exception leaves the dispatcher, which catches only JSONDecodeError,
\* KeyError and (in _get_next_agent_on_success) ValueError
RootSend(run, event, after) ==
    LET target == Send(CodeGenerationFSM, event, run.wfState) IN
    IF target = TransitionNotAllowed
    THEN Outcome(run, Raised, "rejected")
    ELSE Outcome([run EXCEPT !.wfState = target], after, "fired")

\* _get_next_agent_on_success followed by lines 148-152 of the dispatcher:
\* events[current_index + 1] is triggered and chain[current_index + 1]
\* speaks next; after the last of the chain, or for a name that is not in the
\* chain, complete_workflow is sent and nobody speaks
GetNextAgentOnSuccess(run, order, last_agent_name) ==
    LET i == ChainIndex(last_agent_name) IN
    IF i # 0 /\ i + 1 <= Len(Chain)
    THEN RootSend(run, Events(order)[i + 1], GetAgent(Chain[i + 1]))
    ELSE RootSend(run, "complete_workflow", None)

\* has_transition(name): the machine has an event of that name
HasTransition(machine, name) == name \in EventNames(machine)

RetryStateMap(state) ==
    CASE state = "code_reviewed" -> "PromptEngineer"
      [] state = "security_validated" -> "CodeGenerator"
      [] state = "tests_executed" -> "CodeGenerator"
      [] state = "quality_approved" -> "SystemArchitect"
      [] OTHER -> "SystemArchitect"

\* _get_agent_for_retry: the retry event is looked up under the name
\* "retry_from_" + the id of the current state
GetAgentForRetry(run) ==
    LET retry_agent == RetryStateMap(run.wfState)
        retry_event == "retry_from_" \o run.wfState
    IN  IF HasTransition(CodeGenerationFSM, retry_event)
        THEN RootSend(run, retry_event, GetAgent(retry_agent))
        ELSE Outcome(run, GetAgent(retry_agent), "none")

\* faulty variant: the ceiling reached one error early
RootRetryExceededOffByOne(count) == count >= RootRetryCeiling

\* self.active_context.retry_count > 3
RootRetryExceeded(count) == count > RootRetryCeiling

\* _custom_speaker_selection for len(groupchat.messages) > 1
CustomSpeakerSelection(run, order, m) ==
    IF m.kind = "notjson" \/ ~RootValidateAgentResponse(m)
    THEN RootSend(run, "fail_from_any", None)
    ELSE LET status == Get(m, "status")
             agent_name == Get(m, "agent")
         IN  IF status = "success"
             THEN GetNextAgentOnSuccess(ContextUpdate(run, agent_name, m), order, agent_name)
             ELSE IF status = "error"
             THEN LET r == ContextAddError(run, agent_name, m) IN
                  IF RootRetryExceeded(r.retry_count)
                  THEN RootSend(r, "fail_from_any", None)
                  ELSE GetAgentForRetry(r)
             ELSE Outcome(run, None, "none")

-----------------------------------------------------------------------------
(* FSMWorkflowOrchestrator, src/src/core/workflow.py *)

CoreRetryCeiling == 3

\* faulty variant: every agent is mapped to the first forward event
ProgressEventAnyAgent(agent_name) ==
    IF agent_name \in AgentNames THEN "analyze_requirements" ELSE NULL

\* the transitions table of _progress_workflow; NULL for a name not in it
ProgressEvent(agent_name) ==
    CASE agent_name = "SystemArchitect" -> "analyze_requirements"
      [] agent_name = "PromptEngineer" -> "engineer_prompt"
      [] agent_name = "CodeGenerator" -> "generate_code"
      [] agent_name = "CodeReviewer" -> "review_code"
      [] agent_name = "SecurityValidator" -> "validate_security"
      [] agent_name = "TestRunner" -> "execute_tests"
      [] agent_name = "DocumentationGenerator" -> "generate_documentation"
      [] agent_name = "QualityGate" -> "approve_quality"
      [] OTHER -> NULL

\* _progress_workflow: the event of the agent is sent; `except Exception`
\* logs a TransitionNotAllowed and the call returns normally
ProgressWorkflow(run, agent_name) ==
    LET event == ProgressEvent(agent_name) IN
    IF event = NULL THEN [run |-> run, attempt |-> "none"]
    ELSE LET target == Send(CodeGenerationWorkflow, event, run.wfState) IN
         IF target = TransitionNotAllowed
         THEN [run |-> run, attempt |-> "rejected"]
         ELSE [run |-> [run EXCEPT !.wfState = target], attempt |-> "fired"]

\* _get_next_agent_by_state
StateToAgent(state) ==
    CASE state = "initialized" -> "SystemArchitect"
      [] state = "requirements_analyzed" -> "SystemArchitect"
      [] state = "architecture_designed" -> "PromptEngineer"
      [] state = "prompt_engineered" -> "CodeGenerator"
      [] state = "code_generated" -> "CodeReviewer"
      [] state = "code_reviewed" -> "SecurityValidator"
      [] state = "security_validated" -> "TestRunner"
      [] state = "tests_executed" -> "DocumentationGenerator"
      [] state = "documentation_generated" -> "QualityGate"
      [] state = "quality_approved" -> "Executor"
      [] OTHER -> NULL

GetNextAgentByState(state) ==
    IF StateToAgent(state) # NULL THEN GetAgent(StateToAgent(state)) ELSE None

\* _get_retry_agent
GetRetryAgent(state) ==
    GetAgent(CASE state = "code_reviewed" -> "PromptEngineer"
               [] state = "security_validated" -> "CodeGenerator"
               [] state = "tests_executed" -> "CodeGenerator"
               [] state = "quality_approved" -> "SystemArchitect"
               [] OTHER -> "SystemArchitect")

\* context.retry_count > 3
CoreRetryExceeded(count) == count > CoreRetryCeiling

\* workflow.fail_from_any() inside the try block, then return None: a
\* TransitionNotAllowed is neither JSONDecodeError nor KeyError
CoreFail(run) ==
    LET target == Send(CodeGenerationWorkflow, "fail_from_any", run.wfState) IN
    IF target = TransitionNotAllowed
    THEN Outcome(run, Raised, "rejected")
    ELSE Outcome([run EXCEPT !.wfState = target], None, "fired")

\* faulty variant: the workflow is progressed for every status but error
CoreProgressesUnlessError(status) == status # "error"

\* if status == "success": the statuses _progress_workflow is called for
CoreProgresses(status) == status = "success"

\* faulty variant: the next_agent of the message is not read
CoreSpeakerSelectionByStage(run, last_speaker, m) ==
    IF m.kind = "notjson" THEN Outcome(run, None, "none")
    ELSE IF m.kind # "object" THEN Outcome(run, Raised, "none")
    ELSE LET status == Get(m, "status")
         IN  IF status = "error"
             THEN LET r == [run EXCEPT !.errors = Append(@, m),
                                       !.retry_count = @ + 1]
                  IN  IF CoreRetryExceeded(r.retry_count)
                      THEN CoreFail(r)
                      ELSE Outcome(r, GetRetryAgent(r.wfState), "none")
             ELSE LET p == IF CoreProgresses(status)
                           THEN ProgressWorkflow(run, last_speaker)
                           ELSE [run |-> run, attempt |-> "none"]
                  IN  Outcome(p.run, GetNextAgentByState(p.run.wfState), p.attempt)

\* custom_speaker_selection for a registered run with a last speaker
CoreSpeakerSelection(run, last_speaker, m) ==
    IF m.kind = "notjson" THEN Outcome(run, None, "none")
    ELSE IF m.kind # "object" THEN Outcome(run, Raised, "none")
    ELSE LET next_agent_name == Get(m, "next_agent")
             status == Get(m, "status")
         IN  IF status = "error"
             THEN LET r == [run EXCEPT !.errors = Append(@, m),
                                       !.retry_count = @ + 1]
                  IN  IF CoreRetryExceeded(r.retry_count)
                      THEN CoreFail(r)
                      ELSE Outcome(r, GetRetryAgent(r.wfState), "none")
             ELSE LET p == IF CoreProgresses(status)
                           THEN ProgressWorkflow(run, last_speaker)
                           ELSE [run |-> run, attempt |-> "none"]
                  IN  IF next_agent_name # NULL
                      THEN Outcome(p.run, GetAgent(next_agent_name), p.attempt)
                      ELSE Outcome(p.run, GetNextAgentByState(p.run.wfState), p.attempt)

-----------------------------------------------------------------------------
(* Inputs: what a participant can answer *)

\* the "agent" value of a message: a registered name, or one nobody has
AgentFieldValues == AgentNames \cup {"Unknown"}

Envelope(a, st, r, n) ==
    [kind |-> "object", keys |-> EnvelopeFields, agent |-> a, status |-> st,
     result |-> r, next_agent |-> n]

\* the same object with only the keys of K
Restrict(m, K) ==
    [kind |-> "object", keys |-> m.keys \cap K,
     agent |-> IF "agent" \in K THEN m.agent ELSE NULL,
     status |-> IF "status" \in K THEN m.status ELSE NULL,
     result |-> IF "result" \in K THEN m.result ELSE EmptyResult,
     next_agent |-> IF "next_agent" \in K THEN m.next_agent ELSE NULL]

Without(m, k) == Restrict(m, m.keys \ {k})

\* the hints a result of agent a is given: none, the next of the chain, one
\* out of chain order, and a name nobody has
HintsOf(a) ==
    {NULL, "Executor", "Unknown"}
    \cup {Chain[i + 1] : i \in {j \in 1..(Len(Chain) - 1) : Chain[j] = a}}

\* success results: any agent name, any payload
SuccessResults ==
    UNION {{Envelope(a, "success", r, n) : r \in Payloads, n \in HintsOf(a)} :
            a \in AgentFieldValues}

\* the names error, pending and malformed messages carry
ErrorAgents == {"SecurityValidator", "TestRunner"}

\* error results; the payload is the error text
ErrorResults == {Envelope(a, "error", 1, NULL) : a \in ErrorAgents}

PendingResults ==
    {Envelope("SecurityValidator", "pending", 1, n) : n \in HintsOf("SecurityValidator")}

\* envelopes with one field missing
MissingField ==
    {Without(Envelope("SecurityValidator", st, 1, NULL), k) :
        st \in StatusValues, k \in EnvelopeFields}

\* envelopes whose status is none of the three
BadStatus ==
    {Envelope("SecurityValidator", "invalid_status", 1, n) : n \in {NULL, "PromptEngineer"}}

\* messages that are not StructuredResults
Malformed == {NotJSON, JSONArray} \cup MissingField \cup BadStatus

Messages == SuccessResults \cup ErrorResults \cup PendingResults \cup Malformed

\* who produced the message, as the dispatcher sees it: the root dispatcher
\* reads the "agent" field, the core dispatcher last_speaker.name
Producer(which, speaker, m) ==
    IF which = "root" THEN Get(m, "agent") ELSE speaker

\* progress of the scenario "one structured success from each participant of
\* the chain, in chain order, and nothing else": the number of results fed so
\* far, or -1 once the run has left the scenario
ScenarioAfter(k, which, speaker, m) ==
    IF /\ k >= 0 /\ k < Len(Chain)
       /\ IsStructuredResult(m) /\ m.status = "success"
       /\ m.agent = Chain[k + 1]
       /\ Producer(which, speaker, m) = Chain[k + 1]
    THEN k + 1
    ELSE -1

\* what a message is to the dispatcher: a StructuredResult of one of the
\* three statuses, or something else
HandledAs(m) == IF IsStructuredResult(m) THEN m.status ELSE "other"

-----------------------------------------------------------------------------
(* The run *)

Run ==
    [wfState |-> wfState, history |-> history, data |-> data,
     errors |-> errors, retry_count |-> retry_count]

\* the variables after a dispatcher call with outcome o
Becomes(o) ==
    /\ wfState' = o.run.wfState
    /\ history' = o.run.history
    /\ data' = o.run.data
    /\ errors' = o.run.errors
    /\ retry_count' = o.run.retry_count
    /\ selected' = o.ret
    /\ attempt' = o.attempt

InitRun ==
    /\ impl \in {"root", "core"}
    /\ eventOrder \in (IF impl = "root" THEN {"declared", "sorted"} ELSE {"declared"})
    /\ wfState = NewRun.wfState
    /\ history = NewRun.history
    /\ data = NewRun.data
    /\ errors = NewRun.errors
    /\ retry_count = NewRun.retry_count
    /\ selected = NotStarted
    /\ attempt = "none"
    /\ scenario = 0
    /\ handled = "nothing"

\* first call of _custom_speaker_selection: len(groupchat.messages) <= 1
RootStart ==
    /\ impl = "root"
    /\ selected = NotStarted
    /\ selected' = GetAgent("SystemArchitect")
    /\ UNCHANGED <<impl, eventOrder, wfState, history, data, errors,
                   retry_count, attempt, scenario, handled>>

\* first call of custom_speaker_selection: the initial message of the
\* Executor is the last message
CoreStart ==
    /\ impl = "core"
    /\ selected = NotStarted
    /\ Becomes(CoreSpeakerSelection(Run, "Executor", InitialMessage))
    /\ handled' = HandledAs(InitialMessage)
    /\ UNCHANGED <<impl, eventOrder, scenario>>

\* the selected participant answers m and _custom_speaker_selection runs
RootTurn ==
    /\ impl = "root"
    /\ selected \in AgentNames
    /\ \E m \in Messages :
        /\ Becomes(CustomSpeakerSelection(Run, eventOrder, m))
        /\ scenario' = ScenarioAfter(scenario, impl, selected, m)
        /\ handled' = HandledAs(m)
    /\ UNCHANGED <<impl, eventOrder>>

\* the selected participant answers m and custom_speaker_selection runs
CoreTurn ==
    /\ impl = "core"
    /\ selected \in AgentNames
    /\ \E m \in Messages :
        /\ Becomes(CoreSpeakerSelection(Run, selected, m))
        /\ scenario' = ScenarioAfter(scenario, impl, selected, m)
        /\ handled' = HandledAs(m)
    /\ UNCHANGED <<impl, eventOrder>>

\* the state machine of the run takes the forward transition of its state
\* (workflow.<event>() sent to active_workflow / active_workflows[id][0])
StageEvent ==
    /\ selected \in AgentNames
    /\ \E t \in ForwardTransitions :
        /\ t[2] = wfState
        /\ wfState' = Send(IF impl = "root" THEN CodeGenerationFSM
                           ELSE CodeGenerationWorkflow, t[1], wfState)
    /\ UNCHANGED <<impl, eventOrder, history, data, errors, retry_count,
                   selected, attempt, scenario, handled>>

\* the selected participant answers with an error result
RootErrorTurn ==
    /\ impl = "root"
    /\ selected \in AgentNames
    /\ \E m \in ErrorResults :
        /\ Becomes(CustomSpeakerSelection(Run, eventOrder, m))
        /\ handled' = HandledAs(m)
    /\ scenario' = -1
    /\ UNCHANGED <<impl, eventOrder>>

CoreErrorTurn ==
    /\ impl = "core"
    /\ selected \in AgentNames
    /\ \E m \in ErrorResults :
        /\ Becomes(CoreSpeakerSelection(Run, selected, m))
        /\ handled' = HandledAs(m)
    /\ scenario' = -1
    /\ UNCHANGED <<impl, eventOrder>>

-----------------------------------------------------------------------------
(* The state machines driven event by event *)

InitFsm ==
    /\ simpleState = "initialized"
    /\ fsmState = "initialized"
    /\ coreFsmState = "initialized"
    /\ fsmVisited = {"initialized"}
    /\ coreFsmVisited = {"initialized"}

SimpleEvent ==
    /\ \E e \in EventNames(SimpleWorkflow) :
        /\ Allowed(SimpleWorkflow, e, simpleState)
        /\ simpleState' = Send(SimpleWorkflow, e, simpleState)
    /\ UNCHANGED <<fsmState, coreFsmState, fsmVisited, coreFsmVisited>>

FsmEvent ==
    /\ \E e \in EventNames(CodeGenerationFSM) :
        /\ Allowed(CodeGenerationFSM, e, fsmState)
        /\ fsmState' = Send(CodeGenerationFSM, e, fsmState)
    /\ fsmVisited' = fsmVisited \cup {fsmState'}
    /\ UNCHANGED <<simpleState, coreFsmState, coreFsmVisited>>

CoreFsmEvent ==
    /\ \E e \in EventNames(CodeGenerationWorkflow) :
        /\ Allowed(CodeGenerationWorkflow, e, coreFsmState)
        /\ coreFsmState' = Send(CodeGenerationWorkflow, e, coreFsmState)
    /\ coreFsmVisited' = coreFsmVisited \cup {coreFsmState'}
    /\ UNCHANGED <<simpleState, fsmState, fsmVisited>>

-----------------------------------------------------------------------------
(* validate_agent_response applied to responses *)

EmptyDict == Restrict(Envelope(NULL, NULL, EmptyResult, NULL), {})

Responses ==
    {Restrict(Envelope(a, st, 1, n), K) :
        a \in {"SystemArchitect"},
        st \in StatusValues \cup {"invalid_status", NULL},
        n \in {NULL, "PromptEngineer"},
        K \in SUBSET EnvelopeFields}

InitValidate ==
    /\ vResponse = EmptyDict
    /\ vResult = ValidateAgentResponse(EmptyDict)

Validate ==
    \E r \in Responses :
        /\ vResponse' = r
        /\ vResult' = ValidateAgentResponse(r)

-----------------------------------------------------------------------------
(* StrictJSONAgent.process_last_message, src/src/core/agents.py *)

\* longest message list given to process_last_message
MaxMessages == 2

\* the names of the agents whose process_last_message is called
ProcessAgents == {"CodeGenerator", "TestAgent"}

\* a JSON value as json.loads gives it: an object with its keys and the
\* values of the envelope fields, or an array (kind "array")
JsonValue(kind, keys, a, act, st, r, n) ==
    [kind |-> kind, keys |-> keys, agent |-> a, action |-> act, status |-> st,
     result |-> r, next_agent |-> n]

\* stands where a call gives no JSON value
NoValue == JsonValue("none", {}, NULL, NULL, NULL, EmptyResult, NULL)

\* the result payload {"error": str(e)} of the parse-error envelope
ErrorTextPayload == NumPayloads + 1

JsonValues ==
    {JsonValue("object", EnvelopeFields, "SystemArchitect", "design", "success",
               1, "PromptEngineer"),
     JsonValue("object", {"agent", "status"}, "SystemArchitect", NULL,
               "invalid_status", EmptyResult, NULL),
     JsonValue("array", {}, NULL, NULL, NULL, EmptyResult, NULL)}

\* a chat message (a dict): has it a "content" key, is its content the text
\* of a JSON value, and which value
ChatMessage(has, valid, v) == [has_content |-> has, is_json |-> valid, json |-> v]

\* content is the text of JSON value v
JsonText(v) == ChatMessage(TRUE, TRUE, v)

\* content is a text json.loads rejects ("This is not JSON")
NotJsonText == ChatMessage(TRUE, FALSE, NoValue)

\* a message without a "content" key
NoContent == ChatMessage(FALSE, FALSE, NoValue)

ChatMessages == {JsonText(v) : v \in JsonValues} \cup {NotJsonText, NoContent}

\* last_message.get("content", ""): the text, or "" for a missing key; ""
\* is no JSON text
ContentOf(message) == IF message.has_content THEN message ELSE NotJsonText

\* json.loads: the value the text denotes, or JSONDecodeError
JsonLoads(content) ==
    IF content.is_json THEN [raised |-> FALSE, value |-> content.json]
    ELSE [raised |-> TRUE, value |-> NoValue]

\* what process_last_message gives back: None, or a dict
ReturnsNone == [none |-> TRUE, value |-> NoValue]
ReturnsValue(v) == [none |-> FALSE, value |-> v]

\* faulty variant: the envelope of the except branch without its next_agent key
ParseErrorEnvelopeNoNextAgent(name) ==
    JsonValue("object", EnvelopeFields \ {"next_agent"}, name, "parse_error",
              "error", ErrorTextPayload, NULL)

\* the dict of the except branch
ParseErrorEnvelope(name) ==
    JsonValue("object", EnvelopeFields, name, "parse_error", "error",
              ErrorTextPayload, NULL)

ProcessLastMessage(name, messages) ==
    IF messages = <<>> THEN ReturnsNone
    ELSE LET content == ContentOf(messages[Len(messages)])
             parsed == JsonLoads(content)
         IN  IF parsed.raised THEN ReturnsValue(ParseErrorEnvelope(name))
             ELSE ReturnsValue(parsed.value)

MessageLists ==
    UNION {[1..n -> ChatMessages] : n \in 0..MaxMessages}

InitProcess ==
    /\ pName = "TestAgent"
    /\ pMessages = <<>>
    /\ pResult = ProcessLastMessage("TestAgent", <<>>)

Process ==
    \E name \in ProcessAgents, messages \in MessageLists :
        /\ pName' = name
        /\ pMessages' = messages
        /\ pResult' = ProcessLastMessage(name, messages)

-----------------------------------------------------------------------------
(* CodeSecurityScanner and SecureCodeExecutor, src/security-executor-py.py *)

\* most statements of a snippet
MaxStatements == 2

\* A snippet is a sequence of lines, each one of these texts.  For each text
\* the tables below give what ast.parse, _analyze_ast and re.search find in it.
Statements ==
    {"print(1)", "eval(x)", "exec(x)", "subprocess.run(x)", "import subprocess",
     "os.system(x)", "open(x)", "import requests", "y = obj._value",
     "self._executor = x", "password = 'abc'", "if __name__ == 1: pass",
     "compile(s)", "open(__file__)", "def (", "eval(", "while True: pass"}

\* the line that does not terminate by itself
Loop == "while True: pass"

\* the lines ast.parse rejects with a SyntaxError
SyntaxErrors == {"def (", "eval("}

\* _analyze_ast: the violations the nodes of one line give
AstViolations(stmt) ==
    CASE stmt = "eval(x)" -> <<"Dangerous function call: eval">>
      [] stmt = "exec(x)" -> <<"Dangerous function call: exec">>
      [] stmt = "compile(s)" -> <<"Dangerous function call: compile">>
      [] stmt = "import subprocess" -> <<"Dangerous import: subprocess">>
      [] stmt = "y = obj._value" -> <<"Private attribute access: _value">>
      [] stmt = "self._executor = x" -> <<"Private attribute access: _executor">>
      [] OTHER -> <<>>

\* faulty variant: the list without its eval and exec patterns
DangerousPatternsWithoutEval ==
    <<"Dynamic import detected", "Subprocess usage detected",
      "OS command execution detected", "File operation detected",
      "Dynamic code compilation detected", "Global scope access detected",
      "Local scope access detected", "Dunder method usage detected">>

\* self.dangerous_patterns, each named by its message, in list order
DangerousPatterns ==
    <<"Use of eval() detected", "Use of exec() detected",
      "Dynamic import detected", "Subprocess usage detected",
      "OS command execution detected", "File operation detected",
      "Dynamic code compilation detected", "Global scope access detected",
      "Local scope access detected", "Dunder method usage detected">>

\* self.secret_patterns, each named by its message
SecretPatterns ==
    <<"Hardcoded API key detected", "Hardcoded password detected",
      "Hardcoded secret detected", "AWS credentials detected",
      "AWS secret key detected">>

\* network_patterns, each named by its message
NetworkPatterns == <<"Network operation detected", "URL access detected">>

\* re.search(pattern, line, re.IGNORECASE): the patterns that match the line
PatternsMatching(stmt) ==
    CASE stmt \in {"eval(x)", "eval("} -> {"Use of eval() detected"}
      [] stmt = "exec(x)" -> {"Use of exec() detected"}
      [] stmt = "subprocess.run(x)" -> {"Subprocess usage detected"}
      [] stmt = "os.system(x)" -> {"OS command execution detected"}
      [] stmt = "open(x)" -> {"File operation detected"}
      [] stmt = "open(__file__)" ->
            {"File operation detected", "Dunder method usage detected"}
      [] stmt = "compile(s)" -> {"Dynamic code compilation detected"}
      [] stmt = "if __name__ == 1: pass" -> {"Dunder method usage detected"}
      [] stmt = "password = 'abc'" -> {"Hardcoded password detected"}
      [] stmt = "import requests" -> {"Network operation detected"}
      [] OTHER -> {}

\* "eval" in v or "exec" in v or "subprocess" in v, case-sensitive, for the
\* messages the lines above can give ("Subprocess usage detected" holds no
\* lower-case "subprocess"; "execution" and "_executor" hold "exec")
HasHighWord(v) ==
    v \in {"Use of eval() detected", "Use of exec() detected",
           "OS command execution detected", "Dangerous function call: eval",
           "Dangerous function call: exec", "Dangerous import: subprocess",
           "Private attribute access: _executor"}

RECURSIVE Concat(_)
Concat(seqs) == IF seqs = <<>> THEN <<>> ELSE Head(seqs) \o Concat(Tail(seqs))

\* ast.parse(code) succeeds
Parses(code) == \A i \in 1..Len(code) : code[i] \notin SyntaxErrors

\* _analyze_ast(tree): one violation per offending node
AnalyzeAst(code) == Concat([i \in 1..Len(code) |-> AstViolations(code[i])])

\* a loop "for pattern, message in patterns: if re.search(pattern, code)":
\* the messages of the patterns found anywhere in the code, once each
PatternHits(patterns, code) ==
    SelectSeq(patterns,
              LAMBDA msg : \E i \in 1..Len(code) : msg \in PatternsMatching(code[i]))

SecurityScanResult(safe, risk, violations, warnings) ==
    [safe |-> safe, risk_level |-> risk, violations |-> violations,
     warnings |-> warnings]

\* the violation count above which the risk is high
ManyViolations == 3

\* lines 116-127
RiskLevel(violations) ==
    IF violations # <<>>
    THEN IF \E i \in 1..Len(violations) : HasHighWord(violations[i]) THEN "high"
         ELSE IF Len(violations) > ManyViolations THEN "high"
         ELSE "medium"
    ELSE "low"

\* scan_code
ScanCode(code, language) ==
    IF language = "python" /\ ~Parses(code)
    THEN SecurityScanResult(FALSE, "high", <<"Syntax error">>, <<>>)
    ELSE LET violations ==
                 (IF language = "python" THEN AnalyzeAst(code) ELSE <<>>)
                 \o PatternHits(DangerousPatterns, code)
                 \o PatternHits(SecretPatterns, code)
             risk_level == RiskLevel(violations)
         IN  SecurityScanResult(risk_level = "low" /\ Len(violations) = 0,
                                risk_level, violations,
                                PatternHits(NetworkPatterns, code))


Languages == {"python", "javascript"}

\* stands where nothing has been scanned or returned
NoScan == SecurityScanResult(FALSE, "none", <<>>, <<>>)

\* ExecutionResult, and where the code ran ("none", "docker" or "local");
\* returned is FALSE when an exception left execute_code instead
ExecutionResult(returned, success, output, scan, ran) ==
    [returned |-> returned, success |-> success, output |-> output,
     security_scan |-> scan, ran |-> ran]

\* faulty variant: the gate never rejects
RejectsNothing(scan) == FALSE

\* line 195
Rejects(scan) == ~scan.safe /\ scan.risk_level = "high"

\* what the container does: result bytes, ContainerError, APIError, or an
\* exception _execute_in_docker does not catch
DockerOutcomes == {"ok", "ContainerError", "APIError", "raised"}

\* what exec() does in the restricted namespace: returns, or raises an Exception
LocalOutcomes == {"ok", "Exception"}

\* the call has not returned and nothing makes it return: nothing is given
\* back
NeverReturns(ran) ==
    [ExecutionResult(FALSE, FALSE, "", NoScan, ran) EXCEPT !.output = "(running)"]

\* the code reaches a line that does not terminate
ReachesLoop(code) == \E i \in 1..Len(code) : code[i] = Loop

\* what the container can do with the code.  containers.run is given
\* detach=False and a keyword timeout= that is no run parameter of the docker
\* SDK: the call raises, or waits for the container to exit; a loop that is
\* reached never exits, and a line before it can make the container fail
DockerOutcomesOf(code) ==
    IF ~ReachesLoop(code) THEN DockerOutcomes
    ELSE IF code[1] = Loop THEN {"APIError", "raised", "hangs"}
    ELSE {"ContainerError", "APIError", "raised", "hangs"}

\* what exec(code, exec_globals, exec_locals) can do: no timeout is set
\* around it
LocalOutcomesOf(code) ==
    IF ~ReachesLoop(code) THEN LocalOutcomes
    ELSE IF code[1] = Loop THEN {"hangs"}
    ELSE {"Exception", "hangs"}

ExecuteInDocker(outcome, scan) ==
    CASE outcome = "ok" -> ExecutionResult(TRUE, TRUE, "out", scan, "docker")
      [] outcome = "raised" -> ExecutionResult(FALSE, FALSE, "", NoScan, "docker")
      [] outcome = "hangs" -> NeverReturns("docker")
      [] OTHER -> ExecutionResult(TRUE, FALSE, "", scan, "docker")

ExecuteLocalRestricted(outcome, scan) ==
    IF outcome = "ok" THEN ExecutionResult(TRUE, TRUE, "out", scan, "local")
    ELSE IF outcome = "hangs" THEN NeverReturns("local")
    ELSE ExecutionResult(TRUE, FALSE, "partial", scan, "local")

\* stands where execute_code has not been called
NotExecuted == ExecutionResult(FALSE, FALSE, "", NoScan, "none")

InitSandbox ==
    /\ snippet = <<>>
    /\ docker_client = FALSE
    /\ scanLanguage = "none"
    /\ security_scan = NoScan
    /\ execLanguage = "none"
    /\ execResult = NotExecuted

\* one more line of generated code; the variables of the scanner and the
\* executor hold the latest call on the snippet as it is now
WriteLine ==
    /\ Len(snippet) < MaxStatements
    /\ \E stmt \in Statements : snippet' = Append(snippet, stmt)
    /\ scanLanguage' = "none"
    /\ security_scan' = NoScan
    /\ execLanguage' = "none"
    /\ execResult' = NotExecuted
    /\ UNCHANGED docker_client

\* SecureCodeExecutor.initialize, when docker.from_env() succeeds
Initialize ==
    /\ ~docker_client
    /\ docker_client' = TRUE
    /\ UNCHANGED <<snippet, scanLanguage, security_scan, execLanguage, execResult>>

\* CodeSecurityScanner.scan_code(code, language)
Scan ==
    /\ \E language \in Languages :
        /\ scanLanguage' = language
        /\ security_scan' = ScanCode(snippet, language)
    /\ execLanguage' = "none"
    /\ execResult' = NotExecuted
    /\ UNCHANGED <<snippet, docker_client>>

\* SecureCodeExecutor.execute_code(code, language)
ExecuteCode ==
    /\ \E language \in Languages :
        LET scan == ScanCode(snippet, language) IN
        /\ execLanguage' = language
        /\ IF Rejects(scan)
           THEN execResult' = ExecutionResult(TRUE, FALSE, "", scan, "none")
           ELSE IF docker_client
           THEN \E outcome \in DockerOutcomesOf(snippet) :
                    execResult' = ExecuteInDocker(outcome, scan)
           ELSE \E outcome \in LocalOutcomesOf(snippet) :
                    execResult' = ExecuteLocalRestricted(outcome, scan)
    /\ scanLanguage' = "none"
    /\ security_scan' = NoScan
    /\ UNCHANGED <<snippet, docker_client>>

-----------------------------------------------------------------------------
(* The response cache of IntelligentCostOptimizer, src/src/cost/optimizer.py *)

\* the clock runs from 0 to MaxTime
MaxTime == 3

\* longest time-to-live given to cache_response
MaxTTL == 2

\* Request hashes: <<first 8 hexadecimal characters, the rest>>
RequestHashes == {<<"aaaaaaaa", "1">>, <<"aaaaaaaa", "2">>, <<"bbbbbbbb", "1">>}

\* request_hash[:8]
Prefix(request_hash) == request_hash[1]

\* the keys "cache:exact:<hash>" and "cache:semantic:<hash[:8]>:<hash>"
ExactKey(request_hash) == <<"exact", request_hash>>
SemanticKey(request_hash) == <<"semantic", request_hash>>

\* the hash of a request whose response is never given to cache_response
NeverCached == <<"aaaaaaaa", "3">>

\* the hashes get_cached_response is called with
Digests == RequestHashes \cup {NeverCached}

CacheKeys == {"exact", "semantic"} \X Digests

\* the responses given to cache_response: {} and {"result": 1}
CacheResponses ==
    {JsonValue("object", {}, NULL, NULL, NULL, EmptyResult, NULL),
     JsonValue("object", {"result"}, NULL, NULL, NULL, 1, NULL)}

\* json.dumps of a JSON value: its text
JsonDumps(v) == JsonText(v)

\* a key of the store: its value, the time at which it expires and the time
\* of the setex that wrote it; a key that was never set expires at 0
NoEntry == [value |-> NotJsonText, expires |-> 0, set_at |-> 0]

\* setex(key, ttl, value) at time t
SetEx(st, key, ttl, value, t) ==
    [st EXCEPT ![key] = [value |-> value, expires |-> t + ttl, set_at |-> t]]

\* the key exists at time t
Alive(st, key, t) == t < st[key].expires

\* what get_cached_response returns: a dict, or None
CacheHit(v) == [hit |-> TRUE, value |-> v]
CacheMiss == [hit |-> FALSE, value |-> NoValue]

\* scan_iter(match="cache:semantic:<hash[:8]>*"): the keys of the pattern
\* that exist; the order in which SCAN gives them is the store's
SimilarKeys(st, request_hash, t) ==
    {SemanticKey(h) : h \in {g \in RequestHashes :
        Prefix(g) = Prefix(request_hash) /\ Alive(st, SemanticKey(g), t)}}

\* get_cached_response with a client: every value the call can return
GetCachedResponse(st, request_hash, t) ==
    IF Alive(st, ExactKey(request_hash), t)
    THEN {CacheHit(JsonLoads(st[ExactKey(request_hash)].value).value)}
    ELSE IF SimilarKeys(st, request_hash, t) # {}
    THEN {CacheHit(JsonLoads(st[k].value).value) : k \in SimilarKeys(st, request_hash, t)}
    ELSE {CacheMiss}

InitCache ==
    /\ redis_client = FALSE
    /\ now = 0
    /\ store = [k \in CacheKeys |-> NoEntry]
    /\ cached = CacheMiss

\* IntelligentCostOptimizer.initialize
Connect ==
    /\ ~redis_client
    /\ redis_client' = TRUE
    /\ UNCHANGED <<now, store, cached>>

\* time passes
Tick ==
    /\ now < MaxTime
    /\ now' = now + 1
    /\ UNCHANGED <<redis_client, store, cached>>

\* cache_response(request_hash, response, ttl)
CacheResponse ==
    /\ \E request_hash \in RequestHashes, response \in CacheResponses, ttl \in 1..MaxTTL :
        store' = IF redis_client
                 THEN SetEx(SetEx(store, ExactKey(request_hash), ttl,
                                  JsonDumps(response), now),
                            SemanticKey(request_hash), ttl, JsonDumps(response), now)
                 ELSE store
    /\ UNCHANGED <<redis_client, now, cached>>

\* get_cached_response(request_hash)
GetCached ==
    /\ \E request_hash \in Digests :
        IF redis_client
        THEN cached' \in GetCachedResponse(store, request_hash, now)
        ELSE cached' = CacheMiss
    /\ UNCHANGED <<redis_client, now, store>>

-----------------------------------------------------------------------------
(* IntelligentCostOptimizer.analyze_request_complexity,
   src/src/cost/optimizer.py *)

\* most occurrences of one indicator in a request
MaxOccurrences == 2

\* most blocks of other text in a request
MaxBlocks == 2

\* words in one block of other text
BlockWords == 400

\* the indicators of the four lists that the requests of the model use
CodeIndicators == {"algorithm", "optimization", "parallel"}
DomainIndicators == {"financial", "compliance", "real-time"}
SecurityIndicators == {"encryption", "compliance"}
PerformanceIndicators == {"optimization", "real-time"}

Indicators ==
    CodeIndicators \cup DomainIndicators \cup SecurityIndicators
        \cup PerformanceIndicators

\* A request, by what json.dumps(request) holds: the number of words that
\* are no indicator, and how often each indicator occurs as a word
RequestOf(words, occurrences) == [words |-> words, occurrences |-> occurrences]

EmptyRequest == RequestOf(0, [i \in Indicators |-> 0])

RECURSIVE Occurrences(_, _)
Occurrences(r, S) ==
    IF S = {} THEN 0
    ELSE LET i == CHOOSE x \in S : TRUE
         IN  r.occurrences[i] + Occurrences(r, S \ {i})

\* len(content.split())
WordCount(r) == r.words + Occurrences(r, Indicators)

\* faulty variant: an indicator counts only when it occurs exactly once
PresentOnlyOnce(n) == n = 1

\* indicator in content.lower(), for an indicator that occurs n times
Present(n) == n > 0

\* sum(1 for indicator in indicators if indicator in content.lower())
IndicatorCount(indicators, r) ==
    Cardinality({i \in indicators : Present(r.occurrences[i])})

\* Factors and scores are fractions; a factor f is held as f * FactorOne and
\* a weight as a percentage, so the score s is held as s * 100 * FactorOne
FactorOne == 30000

\* faulty variant: the factor is not capped
Uncapped(x) == x

\* min(x, 1.0)
CapToOne(x) == IF x < FactorOne THEN x ELSE FactorOne

\* the five factors of a request
Factors(r) ==
    [token_count |-> CapToOne((WordCount(r) * 13 * FactorOne) \div 10000),
     code_complexity |->
         CapToOne((IndicatorCount(CodeIndicators, r) * FactorOne) \div 3),
     domain_complexity |->
         CapToOne((IndicatorCount(DomainIndicators, r) * FactorOne) \div 2),
     security_requirements |->
         CapToOne((IndicatorCount(SecurityIndicators, r) * FactorOne) \div 2),
     performance_requirements |->
         CapToOne((IndicatorCount(PerformanceIndicators, r) * FactorOne) \div 2)]

Weights ==
    [token_count |-> 15, code_complexity |-> 25, domain_complexity |-> 25,
     security_requirements |-> 20, performance_requirements |-> 15]

\* sum(factors[k] * weights[k] for k in factors)
WeightedSum(f) ==
    f.token_count * Weights.token_count
        + f.code_complexity * Weights.code_complexity
        + f.domain_complexity * Weights.domain_complexity
        + f.security_requirements * Weights.security_requirements
        + f.performance_requirements * Weights.performance_requirements

Tiers == <<"local", "economic", "standard", "high_performance">>

\* the thresholds 0.3, 0.5 and 0.7
RecommendedTier(score) ==
    IF score < 30 * FactorOne THEN "local"
    ELSE IF score < 50 * FactorOne THEN "economic"
    ELSE IF score < 70 * FactorOne THEN "standard"
    ELSE "high_performance"

\* ComplexityScore
AnalyzeRequestComplexity(r) ==
    LET factors == Factors(r)
        complexity_score == WeightedSum(factors)
    IN  [score |-> complexity_score,
         factors |-> factors,
         recommended_tier |-> RecommendedTier(complexity_score)]

NoAnalysis == [score |-> -1, factors |-> Factors(EmptyRequest),
               recommended_tier |-> "none"]

InitComplexity ==
    /\ request = EmptyRequest
    /\ complexity = NoAnalysis

\* the caller adds a block of text that holds no indicator
WriteWords ==
    /\ request.words < MaxBlocks * BlockWords
    /\ request' = [request EXCEPT !.words = @ + BlockWords]
    /\ complexity' = NoAnalysis

\* the caller adds one occurrence of an indicator
WriteIndicator ==
    /\ \E i \in Indicators :
        /\ request.occurrences[i] < MaxOccurrences
        /\ request' = [request EXCEPT !.occurrences[i] = @ + 1]
    /\ complexity' = NoAnalysis

\* analyze_request_complexity(request)
Analyze ==
    /\ complexity = NoAnalysis
    /\ complexity' = AnalyzeRequestComplexity(request)
    /\ UNCHANGED request

-----------------------------------------------------------------------------
(* IntelligentCostOptimizer.route_request, track_usage and the cost ledger,
   src/src/cost/optimizer.py.  redis.from_url gives a client without
   connecting, so a client can be set while the store is down; then every
   operation on it raises.  The list routing_decisions that
   _track_routing_decision pushes to is read by no call of the model and is
   left out, and so is the list usage_history that track_usage appends to;
   the push itself, which can raise, is not. *)

\* most usage records that the ledger holds
MaxRecords == 4

\* the cost of one usage record, in USD
CostUnit == 400

\* the last day of the month that the clock reaches
MaxDay == 2

\* ModelConfig.monthly_budget_usd and cost_alert_threshold (in percent)
MonthlyBudgetUsd == 1000
CostAlertThresholdPercent == 80

\* for day in range(1, 32)
MonthDays == 31

\* threshold = budget * cost_alert_threshold
Threshold == (MonthlyBudgetUsd * CostAlertThresholdPercent) \div 100

TierOverrides == {"SystemArchitect", "SecurityValidator", "QualityGate"}

\* the agent types that ask for a route
RoutedAgents == TierOverrides \cup {"CodeGenerator"}

TierDowngrades ==
    [high_performance |-> "standard", standard |-> "economic",
     economic |-> "local", local |-> "local"]

\* the requests of the model, by their SHA-256 digest: one that is
\* recommended local, one economic and one standard
RequestOfDigest(request_hash) ==
    IF request_hash = <<"aaaaaaaa", "1">> THEN EmptyRequest
    ELSE IF request_hash = <<"aaaaaaaa", "2">>
    THEN RequestOf(0, [i \in Indicators |->
             IF i \in {"algorithm", "optimization", "parallel", "financial"}
             THEN 1 ELSE 0])
    ELSE RequestOf(BlockWords, [i \in Indicators |->
             IF i \in {"algorithm", "optimization", "financial", "compliance"}
             THEN 1 ELSE 0])

\* ConfigManager.get_llm_config(tier), src/src/core/config.py: the
\* configuration of the tier
GetLlmConfig(tier) == [config_of |-> tier]

\* if cached_response: a dict is true when it is not None and not empty
Truthy(c) == c.hit /\ c.value.keys # {}

RECURSIVE SumDays(_, _)
SumDays(ledger, day) ==
    IF day = 0 THEN 0 ELSE ledger[day] + SumDays(ledger, day - 1)

\* the sum of the daily counters of the month
MonthlyCost(ledger) == SumDays(ledger, MonthDays)

\* faulty variant: spend equal to the threshold does not count
ExceededOnlyAbove(cost) == cost > Threshold

\* monthly_cost >= threshold
BudgetExceeded(cost) == cost >= Threshold

\* _check_budget_exceeded, run without another call in between
CheckBudgetExceeded(client, fault, ledger) ==
    IF ~client THEN FALSE
    ELSE IF fault THEN FALSE
    ELSE BudgetExceeded(MonthlyCost(ledger))

\* what route_request gives its caller, and the steps it went through
Routed(outcome, label, payload, chosen, steps) ==
    [outcome |-> outcome, label |-> label, payload |-> payload,
     chosen |-> chosen, steps |-> steps]

NotRouted == Routed("none", "none", NoValue, "none", {})

\* faulty variant: no role overrides the recommended tier
SelectedTierByScore(agent_type, r) ==
    AnalyzeRequestComplexity(r).recommended_tier

\* the tier selected before the budget check
SelectedTier(agent_type, r) ==
    IF agent_type \in TierOverrides THEN "high_performance"
    ELSE AnalyzeRequestComplexity(r).recommended_tier

\* route_request after a lookup that gave c
RouteAfterLookup(c, agent_type, r, client, fault, ledger) ==
    IF Truthy(c)
    THEN Routed("returned", "cached", c.value, "none", {"cache"})
    ELSE LET chosen == SelectedTier(agent_type, r)
             tier == IF CheckBudgetExceeded(client, fault, ledger)
                     THEN TierDowngrades[chosen] ELSE chosen
         IN  IF client /\ fault
             THEN Routed("raised", "none", NoValue, chosen,
                         {"cache", "analysis", "budget", "config", "track"})
             ELSE Routed("returned", tier, GetLlmConfig(tier), chosen,
                         {"cache", "analysis", "budget", "config", "track"})

\* get_cached_response as route_request calls it
Lookups(request_hash) ==
    IF redis_client /\ ~redis_fault
    THEN GetCachedResponse(store, request_hash, now)
    ELSE {CacheMiss}

InitRoute ==
    /\ redis_fault = FALSE
    /\ daily_cost = [day \in 1..MonthDays |-> 0]
    /\ today = 1
    /\ routed = NotRouted
    /\ checkDay = 0
    /\ monthly_cost = 0
    /\ budget_exceeded = "none"

\* route_request(request, agent_type), run without another call in between,
\* for the request of digest request_hash
RouteRequestOf(request_hash, agent_type) ==
    /\ UNCHANGED <<redis_fault, daily_cost, today, checkDay,
                   monthly_cost, budget_exceeded>>
    /\ UNCHANGED cacheVars
    /\ routed' \in {RouteAfterLookup(c, agent_type,
                                     RequestOfDigest(request_hash),
                                     redis_client, redis_fault, daily_cost) :
                        c \in Lookups(request_hash)}

RouteRequest ==
    \E request_hash \in RequestHashes, agent_type \in RoutedAgents :
        RouteRequestOf(request_hash, agent_type)

\* track_usage(metrics): with a client the counter of the day is raised by
\* incrbyfloat, unless the store is down
TrackUsage ==
    /\ MonthlyCost(daily_cost) < MaxRecords * CostUnit
    /\ daily_cost' = IF redis_client /\ ~redis_fault
                     THEN [daily_cost EXCEPT ![today] = @ + CostUnit]
                     ELSE daily_cost
    /\ UNCHANGED <<redis_fault, today, routed, checkDay, monthly_cost,
                   budget_exceeded>>

\* the store goes down
StoreFails ==
    /\ redis_client /\ ~redis_fault
    /\ redis_fault' = TRUE
    /\ UNCHANGED <<daily_cost, today, routed, checkDay,
                   monthly_cost, budget_exceeded>>

\* midnight
NewDay ==
    /\ today < MaxDay
    /\ today' = today + 1
    /\ UNCHANGED <<redis_fault, daily_cost, routed, checkDay,
                   monthly_cost, budget_exceeded>>

\* _check_budget_exceeded, one await at a time: the call starts,
BeginBudgetCheck ==
    /\ redis_client /\ checkDay = 0
    /\ checkDay' = 1
    /\ monthly_cost' = 0
    /\ budget_exceeded' = "none"
    /\ UNCHANGED <<redis_fault, daily_cost, today, routed>>

\* reads the counter of one day,
ReadDailyCost ==
    /\ checkDay \in 1..MonthDays
    /\ monthly_cost' = monthly_cost + daily_cost[checkDay]
    /\ checkDay' = checkDay + 1
    /\ UNCHANGED <<redis_fault, daily_cost, today, routed,
                   budget_exceeded>>

\* and compares the sum with the threshold
DecideBudget ==
    /\ checkDay = MonthDays + 1
    /\ budget_exceeded' = IF BudgetExceeded(monthly_cost) THEN "yes" ELSE "no"
    /\ checkDay' = 0
    /\ UNCHANGED <<redis_fault, daily_cost, today, routed,
                   monthly_cost>>

-----------------------------------------------------------------------------
(* GroupChatWorkflowManager.execute, src/workflow.py, and
   FSMWorkflowOrchestrator.execute_workflow, src/src/core/workflow.py.  The
   chat of a run is over when the dispatcher has returned None or an
   exception has left it; a chat that is ended by max_round = 50 is beyond
   the runs of the model. *)

\* what the call gives its caller: the dict, by its keys and the values of
\* "success", "final_state", "results" and "errors"; to_dict of the core
\* context is held as results and errors
Response(success, final_state, keys, results, errs) ==
    [kind |-> "returned", success |-> success, final_state |-> final_state,
     keys |-> keys, results |-> results, errors |-> errs]

NoResponse ==
    [kind |-> "none", success |-> FALSE, final_state |-> NULL, keys |-> {},
     results |-> NewRun.data, errors |-> <<>>]

\* an exception leaves the call
ExecuteRaised == [NoResponse EXCEPT !.kind = "raised"]

\* faulty variant: success is reported for every terminal state
ExecuteResponseForTerminal(run, ret) ==
    IF ret = Raised THEN ExecuteRaised
    ELSE IF run.wfState \in FinalStates
    THEN Response(TRUE, run.wfState, {"success", "final_state", "results"},
                  run.data, <<>>)
    ELSE Response(FALSE, run.wfState, {"success", "final_state", "errors"},
                  NewRun.data, run.errors)

\* execute: the exception of the chat leaves execute
ExecuteResponse(run, ret) ==
    IF ret = Raised THEN ExecuteRaised
    ELSE IF run.wfState = "completed"
    THEN Response(TRUE, run.wfState, {"success", "final_state", "results"},
                  run.data, <<>>)
    ELSE Response(FALSE, run.wfState, {"success", "final_state", "errors"},
                  NewRun.data, run.errors)

\* execute_workflow: the exception of the chat is caught, fail_from_any is
\* sent from the except block, and the dict has no "errors"
ExecuteWorkflowResponse(run, ret) ==
    IF ret = Raised
    THEN LET target == Send(CodeGenerationWorkflow, "fail_from_any", run.wfState)
         IN  IF target = TransitionNotAllowed
             THEN [run |-> run, response |-> ExecuteRaised]
             ELSE [run |-> [run EXCEPT !.wfState = target],
                   response |-> Response(FALSE, target,
                       {"success", "workflow_id", "error", "final_state"},
                       NewRun.data, <<>>)]
    ELSE IF run.wfState = "completed"
    THEN [run |-> run,
          response |-> Response(TRUE, NULL,
              {"success", "workflow_id", "results", "duration"},
              run.data, run.errors)]
    ELSE [run |-> run,
          response |-> Response(FALSE, run.wfState,
              {"success", "workflow_id", "error", "final_state", "errors"},
              NewRun.data, run.errors)]

\* the end of execute / execute_workflow for a run whose chat gave ret
ExecuteEnd(which, run, ret) ==
    IF which = "root"
    THEN [run |-> run, response |-> ExecuteResponse(run, ret)]
    ELSE ExecuteWorkflowResponse(run, ret)

InitExecute ==
    /\ execute_response = NoResponse
    /\ runs = [c \in Calls |-> NewRun]
    /\ active_workflow = "none"
    /\ active_workflows = {}
    /\ calls = [c \in Calls |-> [selected |-> "idle", response |-> NoResponse]]

\* the chat is running
ChatOpen == execute_response = NoResponse

\* the chat is over and execute / execute_workflow returns
ExecuteReturn ==
    /\ ChatOpen
    /\ selected \in {None, Raised}
    /\ LET end == ExecuteEnd(impl, Run, selected)
       IN  /\ wfState' = end.run.wfState
           /\ execute_response' = end.response
    /\ UNCHANGED <<impl, eventOrder, history, data, errors, retry_count,
                   selected, attempt, scenario, handled>>
    /\ UNCHANGED <<runs, active_workflow, active_workflows, calls>>

(* Two calls of execute / execute_workflow on one orchestrator object.  The
   root manager keeps the state machine and context of a run in its
   attributes active_workflow and active_context; the core orchestrator
   keeps them in active_workflows under the run id, which the dispatcher
   reads from the first message of the chat. *)

\* what the participants of concurrent runs answer
ConcurrentMessages ==
    {NotJSON, JSONArray, Envelope("SecurityValidator", "error", 1, NULL),
     Envelope("SecurityValidator", "success", 1, NULL)}

\* the run whose state machine and context a step of call c works on
RunOf(c) == IF impl = "root" THEN active_workflow ELSE c

\* execute / execute_workflow up to the start of the chat
StartExecute(c) ==
    /\ calls[c].selected = "idle"
    /\ runs' = [runs EXCEPT ![c] = NewRun]
    /\ active_workflow' = IF impl = "root" THEN c ELSE active_workflow
    /\ active_workflows' =
           IF impl = "core" THEN active_workflows \cup {c} ELSE active_workflows
    /\ calls' = [calls EXCEPT ![c].selected = NotStarted]
    /\ UNCHANGED execute_response

\* a call of the dispatcher in the chat of call c gave o
DispatcherGave(c, o) ==
    /\ runs' = [runs EXCEPT ![RunOf(c)] = o.run]
    /\ calls' = [calls EXCEPT ![c].selected = o.ret]
    /\ UNCHANGED <<execute_response, active_workflow, active_workflows>>

\* the first call of the dispatcher in the chat of call c
FirstSelection(c) ==
    /\ calls[c].selected = NotStarted
    /\ DispatcherGave(c,
           IF impl = "root"
           THEN Outcome(runs[RunOf(c)], GetAgent("SystemArchitect"), "none")
           ELSE CoreSpeakerSelection(runs[c], "Executor", InitialMessage))

\* the selected participant answers m in the chat of call c
TurnOf(c, m) ==
    /\ calls[c].selected \in AgentNames
    /\ DispatcherGave(c,
           IF impl = "root"
           THEN CustomSpeakerSelection(runs[RunOf(c)], eventOrder, m)
           ELSE CoreSpeakerSelection(runs[c], calls[c].selected, m))

\* faulty variant: the call returns and the run stays in active_workflows
ReturnOfWithoutCleanup(c) ==
    /\ calls[c].selected \in {None, Raised}
    /\ calls[c].response = NoResponse
    /\ LET end == ExecuteEnd(impl, runs[RunOf(c)], calls[c].selected)
       IN  /\ runs' = [runs EXCEPT ![RunOf(c)] = end.run]
           /\ calls' = [calls EXCEPT ![c].response = end.response]
    /\ UNCHANGED <<execute_response, active_workflow, active_workflows>>

\* the chat of call c is over and the call returns; finally: the run is
\* taken out of active_workflows
ReturnOf(c) ==
    /\ calls[c].selected \in {None, Raised}
    /\ calls[c].response = NoResponse
    /\ LET end == ExecuteEnd(impl, runs[RunOf(c)], calls[c].selected)
       IN  /\ runs' = [runs EXCEPT ![RunOf(c)] = end.run]
           /\ calls' = [calls EXCEPT ![c].response = end.response]
    /\ active_workflows' = active_workflows \ {c}
    /\ UNCHANGED <<execute_response, active_workflow>>

ConcurrentStart == \E c \in Calls : StartExecute(c)
ConcurrentFirst == \E c \in Calls : FirstSelection(c)
ConcurrentTurn == \E c \in Calls, m \in ConcurrentMessages : TurnOf(c, m)
ConcurrentReturn == \E c \in Calls : ReturnOf(c)

-----------------------------------------------------------------------------
(* AgentOrchestrator.__init__ and get_agent, src/agents.py and
   src/src/core/agents.py.  A participant is held by its name attribute.
   The dispatcher steps of this section are those of an orchestrator whose
   registry has all nine entries. *)

\* ConfigManager._load_model_configs of src/settings.py: local always has a
\* model, high_performance and standard have one when the environment holds
\* an API key, and a tier without a model is left out
ModelConfigs(has_api_key) ==
    IF has_api_key THEN {"high_performance", "standard", "local"} ELSE {"local"}

\* the tiers of ConfigManager.get_llm_config of src/src/core/config.py
CoreModelConfigs == {"high_performance", "standard", "economic", "local"}

\* agent_tier_mapping of src/agents.py
AgentTierMapping(name) ==
    CASE name \in {"SystemArchitect", "SecurityValidator", "QualityGate"} -> "high_performance"
      [] name \in {"PromptEngineer", "CodeReviewer"} -> "standard"
      [] name \in {"CodeGenerator", "TestRunner", "DocumentationGenerator"} -> "local"

\* agent_classes, and ExecutorAgent for the Executor: the class of an entry
AgentClasses(name) == IF name = "Executor" THEN "ExecutorAgent" ELSE name

\* the name each agent class gives to super().__init__
NameOf(class) == IF class = "ExecutorAgent" THEN "Executor" ELSE class

\* faulty variant: the Executor is not added
RootInitializeAgentsWithoutExecutor(configs) ==
    [n \in {a \in AgentNames \ {"Executor"} : AgentTierMapping(a) \in configs}
        |-> NameOf(AgentClasses(n))]

\* _initialize_agents of src/agents.py: an agent whose get_llm_config raises
\* ValueError is logged and left out; the Executor is added last
RootInitializeAgents(configs) ==
    [n \in {a \in AgentNames \ {"Executor"} : AgentTierMapping(a) \in configs}
            \cup {"Executor"} |-> NameOf(AgentClasses(n))]

\* _initialize_agents of src/src/core/agents.py: a dict of nine entries
CoreInitializeAgents == [n \in AgentNames |-> NameOf(AgentClasses(n))]

\* self.agents.get(agent_name)
RegistryGet(registry, agent_name) ==
    IF agent_name \in DOMAIN registry THEN registry[agent_name] ELSE None

\* no orchestrator has been constructed
NoAgents == [n \in {} |-> n]

NothingGot == [name |-> NULL, agent |-> None]

Built == agents # NoAgents

InitRegistry ==
    /\ model_configs = {}
    /\ agents = NoAgents
    /\ got = NothingGot

\* AgentOrchestrator(config_manager)
InitializeAgents ==
    /\ ~Built
    /\ \E has_api_key \in BOOLEAN :
        model_configs' = IF impl = "root" THEN ModelConfigs(has_api_key)
                         ELSE CoreModelConfigs
    /\ agents' = IF impl = "root" THEN RootInitializeAgents(model_configs')
                 ELSE CoreInitializeAgents
    /\ UNCHANGED got

\* get_agent(agent_name)
GetAgentCall ==
    /\ Built
    /\ \E agent_name \in AgentFieldValues :
        got' = [name |-> agent_name, agent |-> RegistryGet(agents, agent_name)]
    /\ UNCHANGED <<model_configs, agents>>

\* a dispatcher step of an orchestrator with all nine agents
Dispatch(step) ==
    /\ DOMAIN agents = AgentNames
    /\ step
    /\ UNCHANGED regVars

-----------------------------------------------------------------------------
(* Specifications *)

Init == InitRun /\ InitFsm /\ InitValidate /\ InitProcess /\ InitSandbox
        /\ InitCache /\ InitComplexity /\ InitRoute /\ InitExecute
        /\ InitRegistry

Next ==
    \/ RootStart /\ UNCHANGED <<fsmVars, valVars, procVars, boxVars, cacheVars, cplxVars, routeVars, orchVars, regVars>>
    \/ CoreStart /\ UNCHANGED <<fsmVars, valVars, procVars, boxVars, cacheVars, cplxVars, routeVars, orchVars, regVars>>
    \/ RootTurn /\ UNCHANGED <<fsmVars, valVars, procVars, boxVars, cacheVars, cplxVars, routeVars, orchVars, regVars>>
    \/ CoreTurn /\ UNCHANGED <<fsmVars, valVars, procVars, boxVars, cacheVars, cplxVars, routeVars, orchVars, regVars>>

Spec == Init /\ [][Next]_vars

\* error results handled in every stage of the pipeline
NextStages ==
    \/ RootStart /\ UNCHANGED <<fsmVars, valVars, procVars, boxVars, cacheVars, cplxVars, routeVars, orchVars, regVars>>
    \/ CoreStart /\ UNCHANGED <<fsmVars, valVars, procVars, boxVars, cacheVars, cplxVars, routeVars, orchVars, regVars>>
    \/ StageEvent /\ UNCHANGED <<fsmVars, valVars, procVars, boxVars, cacheVars, cplxVars, routeVars, orchVars, regVars>>
    \/ RootErrorTurn /\ UNCHANGED <<fsmVars, valVars, procVars, boxVars, cacheVars, cplxVars, routeVars, orchVars, regVars>>
    \/ CoreErrorTurn /\ UNCHANGED <<fsmVars, valVars, procVars, boxVars, cacheVars, cplxVars, routeVars, orchVars, regVars>>

SpecStages == Init /\ [][NextStages]_vars

NextFsm ==
    \/ SimpleEvent /\ UNCHANGED <<runVars, valVars, procVars, boxVars, cacheVars, cplxVars, routeVars, orchVars, regVars>>
    \/ FsmEvent /\ UNCHANGED <<runVars, valVars, procVars, boxVars, cacheVars, cplxVars, routeVars, orchVars, regVars>>
    \/ CoreFsmEvent /\ UNCHANGED <<runVars, valVars, procVars, boxVars, cacheVars, cplxVars, routeVars, orchVars, regVars>>

SpecFsm == Init /\ [][NextFsm]_vars

NextValidate == Validate /\ UNCHANGED <<runVars, fsmVars, procVars, boxVars, cacheVars, cplxVars, routeVars, orchVars, regVars>>

SpecValidate == Init /\ [][NextValidate]_vars

NextProcess == Process /\ UNCHANGED <<runVars, fsmVars, valVars, boxVars, cacheVars, cplxVars, routeVars, orchVars, regVars>>

SpecProcess == Init /\ [][NextProcess]_vars

NextSandbox ==
    \/ WriteLine /\ UNCHANGED <<runVars, fsmVars, valVars, procVars, cacheVars, cplxVars, routeVars, orchVars, regVars>>
    \/ Initialize /\ UNCHANGED <<runVars, fsmVars, valVars, procVars, cacheVars, cplxVars, routeVars, orchVars, regVars>>
    \/ Scan /\ UNCHANGED <<runVars, fsmVars, valVars, procVars, cacheVars, cplxVars, routeVars, orchVars, regVars>>
    \/ ExecuteCode /\ UNCHANGED <<runVars, fsmVars, valVars, procVars, cacheVars, cplxVars, routeVars, orchVars, regVars>>

SpecSandbox == Init /\ [][NextSandbox]_vars

NextCache ==
    \/ Connect /\ UNCHANGED <<runVars, fsmVars, valVars, procVars, boxVars, cplxVars, routeVars, orchVars, regVars>>
    \/ Tick /\ UNCHANGED <<runVars, fsmVars, valVars, procVars, boxVars, cplxVars, routeVars, orchVars, regVars>>
    \/ CacheResponse /\ UNCHANGED <<runVars, fsmVars, valVars, procVars, boxVars, cplxVars, routeVars, orchVars, regVars>>
    \/ GetCached /\ UNCHANGED <<runVars, fsmVars, valVars, procVars, boxVars, cplxVars, routeVars, orchVars, regVars>>

SpecCache == Init /\ [][NextCache]_vars

\* a run up to the response of execute / execute_workflow
NextExecute ==
    \/ RootStart /\ UNCHANGED <<fsmVars, valVars, procVars, boxVars, cacheVars, cplxVars, routeVars, orchVars, regVars>>
    \/ CoreStart /\ UNCHANGED <<fsmVars, valVars, procVars, boxVars, cacheVars, cplxVars, routeVars, orchVars, regVars>>
    \/ RootTurn /\ ChatOpen /\ UNCHANGED <<fsmVars, valVars, procVars, boxVars, cacheVars, cplxVars, routeVars, orchVars, regVars>>
    \/ CoreTurn /\ ChatOpen /\ UNCHANGED <<fsmVars, valVars, procVars, boxVars, cacheVars, cplxVars, routeVars, orchVars, regVars>>
    \/ ExecuteReturn /\ UNCHANGED <<fsmVars, valVars, procVars, boxVars, cacheVars, cplxVars, routeVars, regVars>>

SpecExecute == Init /\ [][NextExecute]_vars

\* the registry of an orchestrator and the dispatcher steps of its runs
NextRegistry ==
    \/ InitializeAgents /\ UNCHANGED <<runVars, fsmVars, valVars, procVars, boxVars, cacheVars, cplxVars, routeVars, orchVars>>
    \/ GetAgentCall /\ UNCHANGED <<runVars, fsmVars, valVars, procVars, boxVars, cacheVars, cplxVars, routeVars, orchVars>>
    \/ Dispatch(RootStart) /\ UNCHANGED <<fsmVars, valVars, procVars, boxVars, cacheVars, cplxVars, routeVars, orchVars>>
    \/ Dispatch(CoreStart) /\ UNCHANGED <<fsmVars, valVars, procVars, boxVars, cacheVars, cplxVars, routeVars, orchVars>>
    \/ Dispatch(RootErrorTurn) /\ UNCHANGED <<fsmVars, valVars, procVars, boxVars, cacheVars, cplxVars, routeVars, orchVars>>
    \/ Dispatch(CoreErrorTurn) /\ UNCHANGED <<fsmVars, valVars, procVars, boxVars, cacheVars, cplxVars, routeVars, orchVars>>

SpecRegistry == Init /\ [][NextRegistry]_vars

\* two concurrent calls on one orchestrator
NextConcurrent ==
    \/ ConcurrentStart /\ UNCHANGED <<runVars, fsmVars, valVars, procVars, boxVars, cacheVars, cplxVars, routeVars, regVars>>
    \/ ConcurrentFirst /\ UNCHANGED <<runVars, fsmVars, valVars, procVars, boxVars, cacheVars, cplxVars, routeVars, regVars>>
    \/ ConcurrentTurn /\ UNCHANGED <<runVars, fsmVars, valVars, procVars, boxVars, cacheVars, cplxVars, routeVars, regVars>>
    \/ ConcurrentReturn /\ UNCHANGED <<runVars, fsmVars, valVars, procVars, boxVars, cacheVars, cplxVars, routeVars, regVars>>

SpecConcurrent == Init /\ [][NextConcurrent]_vars

\* the cost optimizer has no part in the runs: one dispatcher stands for both
InitOptimizer == Init /\ impl = "root" /\ eventOrder = "declared"

NextComplexity ==
    \/ WriteWords /\ UNCHANGED <<runVars, fsmVars, valVars, procVars, boxVars, cacheVars, routeVars, orchVars, regVars>>
    \/ WriteIndicator /\ UNCHANGED <<runVars, fsmVars, valVars, procVars, boxVars, cacheVars, routeVars, orchVars, regVars>>
    \/ Analyze /\ UNCHANGED <<runVars, fsmVars, valVars, procVars, boxVars, cacheVars, routeVars, orchVars, regVars>>

SpecComplexity == InitOptimizer /\ [][NextComplexity]_vars

\* routing with a store that works
NextRouter ==
    \/ Connect /\ UNCHANGED <<runVars, fsmVars, valVars, procVars, boxVars, cplxVars, routeVars, orchVars, regVars>>
    \/ CacheResponse /\ UNCHANGED <<runVars, fsmVars, valVars, procVars, boxVars, cplxVars, routeVars, orchVars, regVars>>
    \/ TrackUsage /\ UNCHANGED <<runVars, fsmVars, valVars, procVars, boxVars, cplxVars, cacheVars, orchVars, regVars>>
    \/ RouteRequest /\ UNCHANGED <<runVars, fsmVars, valVars, procVars, boxVars, cplxVars, cacheVars, orchVars, regVars>>

SpecRouter == InitOptimizer /\ [][NextRouter]_vars

\* routing with a store that can go down
NextOutage ==
    \/ Connect /\ UNCHANGED <<runVars, fsmVars, valVars, procVars, boxVars, cplxVars, routeVars, orchVars, regVars>>
    \/ StoreFails /\ UNCHANGED <<runVars, fsmVars, valVars, procVars, boxVars, cplxVars, cacheVars, orchVars, regVars>>
    \/ NewDay /\ UNCHANGED <<runVars, fsmVars, valVars, procVars, boxVars, cplxVars, cacheVars, orchVars, regVars>>
    \/ TrackUsage /\ UNCHANGED <<runVars, fsmVars, valVars, procVars, boxVars, cplxVars, cacheVars, orchVars, regVars>>
    \/ RouteRequest /\ UNCHANGED <<runVars, fsmVars, valVars, procVars, boxVars, cplxVars, cacheVars, orchVars, regVars>>

SpecOutage == InitOptimizer /\ [][NextOutage]_vars

\* a budget check among calls of track_usage
NextLedger ==
    \/ Connect /\ UNCHANGED <<runVars, fsmVars, valVars, procVars, boxVars, cplxVars, routeVars, orchVars, regVars>>
    \/ NewDay /\ UNCHANGED <<runVars, fsmVars, valVars, procVars, boxVars, cplxVars, cacheVars, orchVars, regVars>>
    \/ TrackUsage /\ UNCHANGED <<runVars, fsmVars, valVars, procVars, boxVars, cplxVars, cacheVars, orchVars, regVars>>
    \/ BeginBudgetCheck /\ UNCHANGED <<runVars, fsmVars, valVars, procVars, boxVars, cplxVars, cacheVars, orchVars, regVars>>
    \/ ReadDailyCost /\ UNCHANGED <<runVars, fsmVars, valVars, procVars, boxVars, cplxVars, cacheVars, orchVars, regVars>>
    \/ DecideBudget /\ UNCHANGED <<runVars, fsmVars, valVars, procVars, boxVars, cplxVars, cacheVars, orchVars, regVars>>

SpecLedger == InitOptimizer /\ [][NextLedger]_vars

-----------------------------------------------------------------------------
(* Properties of the dispatchers *)

\* the outcome of the dispatcher of this run for message m of the selected speaker
SpeakerSelection(m) ==
    IF impl = "root"
    THEN CustomSpeakerSelection(Run, eventOrder, m)
    ELSE CoreSpeakerSelection(Run, selected, m)

\* a participant has been selected and its answer is awaited
AwaitingAnswer == selected \in AgentNames

\* t is a later stage of the pipeline than s
Forward(s, t) == t # "failed" /\ StageIndex(t) > StageIndex(s)

(* C1: once one structured success result of each participant of the chain
   has been handled in chain order, starting from a fresh run, the state
   machine is in completed, the retry counter is 0 and no error is recorded. *)
C1_ScenarioACompletes ==
    scenario = Len(Chain) =>
        wfState = "completed" /\ retry_count = 0 /\ errors = <<>>

(* C2: in every non-terminal state, on every turn after the first, a message
   that is no JSON or lacks an envelope field makes the dispatcher move the
   run to failed, return no participant and leave retry counter and error
   list alone. *)
C2_MalformedForcesFailed ==
    (AwaitingAnswer /\ wfState \notin FinalStates) =>
        \A m \in {NotJSON} \cup MissingField :
            LET o == SpeakerSelection(m) IN
            /\ o.run.wfState = "failed"
            /\ o.ret = None
            /\ o.run.retry_count = retry_count
            /\ o.run.errors = errors

(* C3: a dispatcher step that raises the retry counter of a run in a
   non-terminal state moves the run to failed and returns no participant
   when the counter goes above 3, and does not move it to failed while the
   counter stays at most 3. *)
C3_FourthErrorFails ==
    [][(retry_count' = retry_count + 1 /\ wfState \notin FinalStates) =>
          /\ retry_count' > 3 => (wfState' = "failed" /\ selected' = None)
          /\ retry_count' <= 3 => wfState' # "failed"]_vars

C3_Witness ==
    retry_count = 4 /\ Len(errors) = 4 /\ wfState = "failed" /\ selected = None

(* C4: when the success results up to the code-review stage are followed at
   once by an error result of the security-validation stage, the dispatcher
   leaves the state machine in code_generated with retry counter 1, not in
   failed. *)
C4_ScenarioBRetries ==
    (scenario = 4 /\ AwaitingAnswer) =>
        \A m \in ErrorResults :
            (m.agent = "SecurityValidator"
             /\ Producer(impl, selected, m) = "SecurityValidator") =>
                LET o == SpeakerSelection(m) IN
                /\ o.run.wfState = "code_generated"
                /\ o.run.retry_count = 1

(* C5: a dispatcher step that moves the run to a later stage moves it to the
   immediately following stage, never two or more stages ahead. *)
C5_ForwardOneStage ==
    [][Forward(wfState, wfState') =>
          StageIndex(wfState') = StageIndex(wfState) + 1]_vars

C5_Witness ==
    wfState = "requirements_analyzed" /\ attempt = "fired"

(* C6: the dispatcher moves the run to a later stage only for a message with
   status success produced by the participant assigned to the current stage. *)
C6_ForwardOnlyForStageAgent ==
    AwaitingAnswer =>
        \A m \in Messages :
            Forward(wfState, SpeakerSelection(m).run.wfState) =>
                /\ Get(m, "status") = "success"
                /\ Producer(impl, selected, m) = StateToAgent(wfState)

C6_Witness ==
    impl = "core" /\ scenario = 1 /\ wfState = "requirements_analyzed"

(* C7: in each of the three state machine definitions the fail event is
   enabled in every non-terminal state, initialized included, and leads to
   failed, and completed and failed have no outgoing transition. *)
FailEnabled(machine, event, state) ==
    /\ state \notin FinalStates => Send(machine, event, state) = "failed"
    /\ state \in FinalStates => \A e \in EventNames(machine) : ~Allowed(machine, e, state)

C7_FailFromEveryState ==
    /\ FailEnabled(CodeGenerationFSM, "fail_from_any", fsmState)
    /\ FailEnabled(CodeGenerationWorkflow, "fail_from_any", coreFsmState)
    /\ FailEnabled(SimpleWorkflow, "fail_workflow", simpleState)

(* C8: a transition the dispatcher attempts from a state that has no edge for
   it leaves the dispatcher as an error; the dispatcher never goes on to
   return a participant (or None) after it. *)
C8_RejectedTransitionSurfaces ==
    attempt = "rejected" => selected = Raised

(* C9: a message that is no StructuredResult never changes the stored
   results, the history, the error list or the retry counter of a run, and
   the only state change it can cause is the one to failed. *)
C9_MalformedNeverAffectsRun ==
    AwaitingAnswer =>
        \A m \in Malformed :
            LET o == SpeakerSelection(m) IN
            /\ o.run.data = data
            /\ o.run.history = history
            /\ o.run.errors = errors
            /\ o.run.retry_count = retry_count
            /\ o.run.wfState \in {wfState, "failed"}

(* C10: validate_agent_response returns True exactly for a response that has
   the five keys agent, action, status, result and next_agent (a null
   next_agent counts) and a status among success, error, pending; it returns
   False for every other response and never raises. *)
C10_ValidateExact ==
    /\ ~vResult.raised
    /\ vResult.value = (/\ EnvelopeFields \subseteq vResponse.keys
                        /\ Get(vResponse, "status") \in StatusValues)

C10_Witness ==
    /\ vResult = Returns(TRUE)
    /\ "next_agent" \in vResponse.keys
    /\ vResponse.next_agent = NULL

(* C11: process_last_message on a non-empty message list returns the parsed
   value when the content of the last message is JSON text; when it is not,
   it returns an envelope with agent = the agent's own name, action
   parse_error, status error and next_agent null, and that envelope passes
   validate_agent_response. *)
C11_ParseOrErrorEnvelope ==
    pMessages # <<>> =>
        LET content == ContentOf(pMessages[Len(pMessages)]) IN
        /\ ~pResult.none
        /\ content.is_json => pResult.value = content.json
        /\ ~content.is_json =>
            /\ pResult.value.keys = EnvelopeFields
            /\ pResult.value.agent = pName
            /\ pResult.value.action = "parse_error"
            /\ pResult.value.status = "error"
            /\ pResult.value.next_agent = NULL
            /\ ValidateAgentResponse(pResult.value) = Returns(TRUE)

C11_Witness ==
    /\ Len(pMessages) = 2
    /\ pMessages[2] = NotJsonText
    /\ pMessages[1] # NotJsonText
    /\ pName = "CodeGenerator"
    /\ pResult.value.action = "parse_error"

(* C12: after the dispatcher has handled a status=success result of
   participant P with payload r, the history has exactly one new entry, for
   P, at its end, the result map holds r under P, and the slots of the other
   participants, the error list and the retry counter are unchanged. *)
C12_SuccessRecorded ==
    AwaitingAnswer =>
        \A m \in SuccessResults :
            LET o == SpeakerSelection(m)
                P == Producer(impl, selected, m)
            IN  /\ Len(o.run.history) = Len(history) + 1
                /\ SubSeq(o.run.history, 1, Len(history)) = history
                /\ o.run.history[Len(o.run.history)].agent = P
                /\ DOMAIN o.run.data = (DOMAIN data) \cup {P}
                /\ o.run.data[P] = m.result
                /\ \A a \in (DOMAIN data) \ {P} : o.run.data[a] = data[a]
                /\ o.run.errors = errors
                /\ o.run.retry_count = retry_count

(* C13: a dispatcher call that handles a status=error result and leaves the
   retry counter at most 3 appends exactly one entry to the error list,
   raises the counter by exactly 1, leaves the stored results unchanged and,
   in code_reviewed, security_validated, tests_executed and quality_approved,
   returns the retry participant of that state (PromptEngineer, CodeGenerator,
   CodeGenerator, SystemArchitect) and fires the retry transition of that
   state. *)
RetryParticipant(state) ==
    CASE state = "code_reviewed" -> "PromptEngineer"
      [] state = "security_validated" -> "CodeGenerator"
      [] state = "tests_executed" -> "CodeGenerator"
      [] state = "quality_approved" -> "SystemArchitect"

RetryTarget(state) == (CHOOSE t \in RetryTransitions : t[2] = state)[3]

C13_ErrorRetries ==
    [][(retry_count' = retry_count + 1 /\ retry_count' <= 3) =>
          /\ Len(errors') = Len(errors) + 1
          /\ SubSeq(errors', 1, Len(errors)) = errors
          /\ data' = data
          /\ wfState \in {t[2] : t \in RetryTransitions} =>
                /\ selected' = RetryParticipant(wfState)
                /\ wfState' = RetryTarget(wfState)]_vars

(* C14: a dispatcher call that handles a well-formed status=pending result
   leaves the state of the state machine, the stored results, the history,
   the error list and the retry counter unchanged. *)
C14_PendingChangesNothing ==
    [][handled' = "pending" =>
          UNCHANGED <<wfState, data, history, errors, retry_count>>]_vars

C14_Witness ==
    /\ handled = "pending"
    /\ impl = "core"
    /\ wfState = "initialized"
    /\ selected = "SystemArchitect"

-----------------------------------------------------------------------------
(* Properties of the scanner and the executor *)

\* execute_code has been called on the snippet
Executed == execLanguage # "none"

\* scan_code has been called on the snippet
Scanned == scanLanguage # "none"

(* C15: execute_code hands the code to no backend when its scan is unsafe
   with risk level high: it then returns an ExecutionResult with success
   false, empty output and that scan attached; and every ExecutionResult it
   returns carries the scan computed for the call. *)
C15_HighRiskNeverRuns ==
    Executed =>
        LET scan == ScanCode(snippet, execLanguage) IN
        /\ (~scan.safe /\ scan.risk_level = "high") =>
              /\ execResult.ran = "none"
              /\ execResult.returned
              /\ ~execResult.success
              /\ execResult.output = ""
        /\ execResult.returned => execResult.security_scan = scan

C15_Witness ==
    /\ Executed
    /\ docker_client
    /\ snippet = <<"print(1)", "os.system(x)">>
    /\ execResult.returned
    /\ execResult.ran = "none"

(* C16: whenever the scan of a snippet reports safe = false, at any risk
   level, execute_code runs the snippet in no backend and returns a failure
   that carries the violations of the scan. *)
C16_UnsafeNeverRuns ==
    Executed =>
        LET scan == ScanCode(snippet, execLanguage) IN
        ~scan.safe =>
            /\ execResult.ran = "none"
            /\ execResult.returned
            /\ ~execResult.success
            /\ execResult.security_scan.violations = scan.violations

(* C17: for a scanned snippet that parses, the risk level is high if a
   violation concerns dynamic evaluation (eval, exec) or process/OS
   invocation (subprocess usage, os.system) or if there are more than 3
   violations, medium if there is a violation and neither holds, low if
   there is none; and safe holds exactly when the risk is low and there is
   no violation. *)
ConcernsEvalOrProcess(v) ==
    v \in {"Use of eval() detected", "Use of exec() detected",
           "Dangerous function call: eval", "Dangerous function call: exec",
           "Subprocess usage detected", "Dangerous import: subprocess",
           "OS command execution detected"}

C17_RiskLevels ==
    (scanLanguage = "python" /\ Parses(snippet)) =>
        LET v == security_scan.violations
            high == \/ \E i \in 1..Len(v) : ConcernsEvalOrProcess(v[i])
                    \/ Len(v) > 3
        IN  /\ security_scan.risk_level =
                  (IF high THEN "high" ELSE IF Len(v) > 0 THEN "medium" ELSE "low")
            /\ security_scan.safe = (security_scan.risk_level = "low" /\ Len(v) = 0)

(* C18: every snippet that contains a call of eval( or exec(, in any
   language and whether it parses or not, is scanned as safe = false with
   risk level medium or high. *)
HasDynamicEvaluation(stmt) == stmt \in {"eval(x)", "exec(x)", "eval("}

C18_DynamicEvaluationUnsafe ==
    (Scanned /\ \E i \in 1..Len(snippet) : HasDynamicEvaluation(snippet[i])) =>
        /\ ~security_scan.safe
        /\ security_scan.risk_level \in {"medium", "high"}

C18_Witness ==
    /\ scanLanguage = "javascript"
    /\ snippet = <<"print(1)", "exec(x)">>
    /\ ~security_scan.safe
    /\ security_scan.risk_level = "high"

(* C19: a snippet that parses and holds no denylisted import or call
   (dynamic evaluation, process/OS invocation, dynamic import, file I/O,
   global/local scope introspection) and no hardcoded credential is scanned
   as safe = true with risk low; a network library only adds a warning. *)
UsesDenylisted(stmt) ==
    stmt \in {"eval(x)", "exec(x)", "eval(", "compile(s)", "subprocess.run(x)",
              "import subprocess", "os.system(x)", "open(x)", "open(__file__)"}

HasCredential(stmt) == stmt = "password = 'abc'"

C19_CleanSnippetSafe ==
    (/\ Scanned
     /\ scanLanguage = "python"
     /\ Parses(snippet)
     /\ \A i \in 1..Len(snippet) :
            ~UsesDenylisted(snippet[i]) /\ ~HasCredential(snippet[i])) =>
        /\ security_scan.safe
        /\ security_scan.risk_level = "low"

-----------------------------------------------------------------------------
(* Properties of the response cache *)

(* C20: once cache_response(D, r, ttl) has completed against an available
   store, get_cached_response(D) returns r at every time before ttl has
   elapsed since the write and None at every time after it has, whatever was
   written under other hashes in between. *)
C20_CacheRoundTrip ==
    redis_client =>
        \A D \in RequestHashes :
            LET written == store[ExactKey(D)] IN
            written # NoEntry =>
                \A returned \in GetCachedResponse(store, D, now) :
                    /\ now < written.expires => returned = CacheHit(written.value.json)
                    /\ now > written.expires => returned = CacheMiss

-----------------------------------------------------------------------------
(* Properties of the cost optimizer *)

Analysed == complexity # NoAnalysis

FactorNames == DOMAIN Weights

(* C22: the score that analyze_request_complexity returns is
   0.15*token + 0.25*code + 0.25*domain + 0.20*security + 0.15*performance
   of factors that each lie in [0,1], so it lies in [0,1]; the recommended
   tier is local below 0.3, economic from 0.3 to below 0.5, standard from
   0.5 to below 0.7 and high_performance from 0.7 on. *)
C22_ScoreAndTier ==
    Analysed =>
        LET f == complexity.factors
            s == complexity.score
        IN  /\ \A k \in FactorNames : f[k] >= 0 /\ f[k] <= FactorOne
            /\ s = 15 * f.token_count + 25 * f.code_complexity
                     + 25 * f.domain_complexity + 20 * f.security_requirements
                     + 15 * f.performance_requirements
            /\ s >= 0 /\ s <= 100 * FactorOne
            /\ (s < 30 * FactorOne) = (complexity.recommended_tier = "local")
            /\ (s >= 30 * FactorOne /\ s < 50 * FactorOne)
                   = (complexity.recommended_tier = "economic")
            /\ (s >= 50 * FactorOne /\ s < 70 * FactorOne)
                   = (complexity.recommended_tier = "standard")
            /\ (s >= 70 * FactorOne)
                   = (complexity.recommended_tier = "high_performance")

\* three domain indicators are present, more than the two that give factor 1
C22_Witness ==
    /\ Analysed
    /\ \A i \in DomainIndicators : request.occurrences[i] > 0
    /\ complexity.factors.domain_complexity = FactorOne
    /\ complexity.recommended_tier = "high_performance"

(* C25: a request that differs from an analysed one only by further
   occurrences of a domain indicator gets a domain_complexity factor and a
   score that are not lower. *)
WithOccurrences(r, i, n) == [r EXCEPT !.occurrences[i] = @ + n]

C25_MoreOccurrencesNotLower ==
    Analysed =>
        \A i \in DomainIndicators, n \in 1..MaxOccurrences :
            LET second == AnalyzeRequestComplexity(WithOccurrences(request, i, n))
            IN  /\ second.factors.domain_complexity
                       >= complexity.factors.domain_complexity
                /\ second.score >= complexity.score

\* the first request holds the indicator once, among other words
C25_Witness ==
    /\ Analysed
    /\ request.occurrences["financial"] = 1
    /\ request.words > 0
    /\ complexity.factors.domain_complexity = FactorOne \div 2
    /\ AnalyzeRequestComplexity(WithOccurrences(request, "financial", 1)).score
           > complexity.score

\* route_request was called and gave this back
RouteReturned == routed.outcome = "returned"

\* the position of a tier in the chain local, economic, standard,
\* high_performance
TierIndex(tier) == CHOOSE n \in 1..Len(Tiers) : Tiers[n] = tier

OneStepBelow(tier) ==
    IF TierIndex(tier) = 1 THEN tier ELSE Tiers[TierIndex(tier) - 1]

(* C21: a route_request call for a request whose digest has an unexpired
   exact-match cache entry returns the label cached with the stored
   response, whatever that response is, and goes through no complexity
   analysis, budget check, tier selection or configuration lookup. *)
C21_CachedEntryShortCircuits ==
    [][\A D \in RequestHashes, a \in RoutedAgents :
          (redis_client /\ Alive(store, ExactKey(D), now) /\ RouteRequestOf(D, a))
              => /\ routed'.outcome = "returned"
                 /\ routed'.label = "cached"
                 /\ JsonDumps(routed'.payload) = store[ExactKey(D)].value
                 /\ routed'.steps = {"cache"}]_vars

(* C23, as claimed: a route_request call for SystemArchitect,
   SecurityValidator or QualityGate that is not served from the cache
   returns the tier high_performance. *)
C23_OverrideAlwaysHighPerformance ==
    [][\A D \in RequestHashes, a \in TierOverrides :
          (RouteRequestOf(D, a) /\ routed'.outcome = "returned"
               /\ routed'.label # "cached")
              => routed'.label = "high_performance"]_vars

(* C23, amended: such a call that returns from a budget check which found
   the spend below the threshold, or could not read it, returns
   high_performance; from one that found the spend at or above the
   threshold it returns standard; in both cases whatever the score. *)
C23_OverrideThenBudget ==
    [][\A D \in RequestHashes, a \in TierOverrides :
          (RouteRequestOf(D, a) /\ routed'.outcome = "returned"
               /\ routed'.label # "cached")
              => routed'.label =
                     (IF redis_client /\ ~redis_fault
                         /\ MonthlyCost(daily_cost) >= Threshold
                      THEN "standard" ELSE "high_performance")]_vars

\* an override role was routed while part of the budget was spent
C23_Witness ==
    /\ RouteReturned
    /\ routed.chosen = "high_performance"
    /\ routed.label = "high_performance"
    /\ MonthlyCost(daily_cost) > 0

(* C24: a route_request call that is not served from the cache returns a
   tier and its configuration.  When the spend of the month is at or above
   budget times alert threshold, the tier is one step below the tier chosen
   before the budget check along high_performance, standard, economic,
   local, and local stays local; when the spend is below, the tier is the
   chosen one. *)
C24_DowngradeOneStep ==
    [][\A D \in RequestHashes, a \in RoutedAgents :
          (RouteRequestOf(D, a) /\ routed'.label # "cached")
              => /\ routed'.outcome = "returned"
                 /\ routed'.chosen \in {Tiers[n] : n \in 1..Len(Tiers)}
                 /\ routed'.payload = GetLlmConfig(routed'.label)
                 /\ routed'.label =
                        (IF MonthlyCost(daily_cost) >= Threshold
                         THEN OneStepBelow(routed'.chosen)
                         ELSE routed'.chosen)
                 /\ OneStepBelow(TierDowngrades["local"]) = "local"]_vars

\* a request recommended local was routed with the budget used up
C24_Witness ==
    /\ RouteReturned
    /\ MonthlyCost(daily_cost) >= Threshold
    /\ routed.chosen = "local"
    /\ routed.label = "local"

(* C26: with no client, or with a store on which every operation raises,
   route_request returns a tier and its configuration and raises nothing. *)
C26_RoutesWithoutStore ==
    [][\A D \in RequestHashes, a \in RoutedAgents :
          ((~redis_client \/ redis_fault) /\ RouteRequestOf(D, a))
              => /\ routed'.outcome = "returned"
                 /\ routed'.label \in {Tiers[n] : n \in 1..Len(Tiers)}
                 /\ routed'.payload = GetLlmConfig(routed'.label)]_vars

(* C28: when a budget check among concurrent track_usage calls decides that
   the budget is not exceeded, the spend recorded by then is not more than
   one usage record above the threshold. *)
C28_NoStaleBudgetRead ==
    [][(checkDay = MonthDays + 1 /\ budget_exceeded' = "no")
          => MonthlyCost(daily_cost) <= Threshold + CostUnit]_vars

-----------------------------------------------------------------------------
(* Properties of execute / execute_workflow *)

(* C27: of two runs started concurrently on one orchestrator object, no
   dispatcher step in the chat of one reads or changes the state, results,
   errors or retry counter of the other, and each call returns the final
   state, results and errors of the run it made. *)
C27_RunsIsolated ==
    [][\A c \in Calls :
          /\ (\E m \in ConcurrentMessages : TurnOf(c, m))
                 => \A d \in Calls \ {c} : runs'[d] = runs[d]
          /\ (ReturnOf(c) /\ calls'[c].response.kind = "returned")
                 => /\ "final_state" \in calls'[c].response.keys
                        => calls'[c].response.final_state = runs'[c].wfState
                    /\ "results" \in calls'[c].response.keys
                        => calls'[c].response.results = runs'[c].data
                    /\ "errors" \in calls'[c].response.keys
                        => calls'[c].response.errors = runs'[c].errors]_vars

(* C30: a response of execute / execute_workflow for a run that did not
   complete has the final state failed and a non-empty error list. *)
C30_FailureIsExplained ==
    (execute_response.kind = "returned" /\ ~execute_response.success) =>
        /\ execute_response.final_state = "failed"
        /\ "errors" \in execute_response.keys
        /\ Len(execute_response.errors) > 0

-----------------------------------------------------------------------------
(* Properties of the executor: termination *)

(* C29: every execute_code call returns an ExecutionResult; for a snippet
   that passes the gate and does not terminate by itself, the result is a
   failure (the timeout error), on the container path and on the in-process
   path. *)
C29_ExecutionAlwaysReturns ==
    Executed =>
        /\ execResult.returned
        /\ (ReachesLoop(snippet) /\ execResult.ran # "none") => ~execResult.success

-----------------------------------------------------------------------------
(* Properties of a run as a whole *)

(* C36: in every reachable state of a run the retry counter equals the
   number of entries of the error list and is at most one above the ceiling
   of 3, whatever the stages the errors came from; no dispatcher step lowers
   it, and a step for a success or pending result leaves it as it is. *)
C36_RetryCountsErrors ==
    /\ [](retry_count = Len(errors) /\ retry_count <= CoreRetryCeiling + 1)
    /\ [][/\ retry_count' >= retry_count
          /\ handled' \in {"success", "pending"} => retry_count' = retry_count]_vars

C36_Witness ==
    /\ retry_count = 2
    /\ Len(errors) = 2
    /\ handled = "success"
    /\ wfState = "requirements_analyzed"

(* C37: whenever the dispatcher, called for the answer of a selected
   participant, returns no next participant, it leaves the state machine of
   the run in completed or failed. *)
C37_HaltsOnlyWhenTerminal ==
    AwaitingAnswer =>
        \A m \in Messages :
            LET o == SpeakerSelection(m) IN
            o.ret = None => o.run.wfState \in FinalStates

(* C39: a response that execute / execute_workflow returns has success =
   true exactly when the state machine of the run is in completed at the end
   of the chat: so it is for the response of every run that has returned,
   and so it would be for the run at hand had its chat ended in any of the
   twelve states. *)
C39_SuccessIffCompleted ==
    /\ execute_response.kind = "returned" =>
           (execute_response.success <=> wfState = "completed")
    /\ \A s \in States, ret \in {None, Raised} :
           LET end == ExecuteEnd(impl, [Run EXCEPT !.wfState = s], ret).response
           IN  end.kind = "returned" => (end.success <=> s = "completed")

C39_Witness ==
    /\ execute_response.kind = "returned"
    /\ ~execute_response.success
    /\ wfState = "requirements_analyzed"
    /\ ExecuteEnd(impl, [Run EXCEPT !.wfState = "completed"], None).response.success

(* C35: a run of execute_workflow is a key of active_workflows from the
   start of the call until the call returns, and is no key of it once the
   call has returned or raised, whether the chat ended with the dispatcher
   returning None or with an exception. *)
C35_RegisteredUntilReturn ==
    impl = "core" =>
        \A c \in Calls :
            /\ (calls[c].selected # "idle" /\ calls[c].response = NoResponse)
                   => c \in active_workflows
            /\ (calls[c].selected = "idle" \/ calls[c].response # NoResponse)
                   => c \notin active_workflows

C35_Witness ==
    /\ impl = "core"
    /\ calls["first"].selected = Raised
    /\ calls["first"].response.kind = "returned"
    /\ "errors" \notin calls["first"].response.keys
    /\ active_workflows = {"second"}
    /\ calls["second"].selected \in AgentNames

-----------------------------------------------------------------------------
(* Properties of the response cache *)

\* the semantic keys of the prefix of D that exist and were set latest
LatestSimilarKeys(D) ==
    {k \in SimilarKeys(store, D, now) :
        \A j \in SimilarKeys(store, D, now) : store[j].set_at <= store[k].set_at}

(* C34: with a store, get_cached_response(D) returns the entry of the exact
   key of D while that key exists; if it does not, it returns the entry
   that was written last among the existing entries whose hash has the
   first 8 characters of D (entries written at the same time count as
   equally recent); if there is none either, it returns None. *)
C34_ExactThenMostRecent ==
    redis_client =>
        \A D \in Digests :
            GetCachedResponse(store, D, now) \subseteq
                (IF Alive(store, ExactKey(D), now)
                 THEN {CacheHit(store[ExactKey(D)].value.json)}
                 ELSE IF SimilarKeys(store, D, now) # {}
                 THEN {CacheHit(store[k].value.json) : k \in LatestSimilarKeys(D)}
                 ELSE {CacheMiss})

-----------------------------------------------------------------------------
(* Properties of the state machines, continued *)

\* the ten stages initialized ... quality_approved
Stages == States \ FinalStates

\* the transitions of machine that lead to completed
IntoCompleted(machine) == {t \in machine : t[3] = "completed"}

(* C40: a ten-stage state machine driven by any sequence of its forward,
   retry and fail events is in completed only after it has been in each of
   the ten stages initialized to quality_approved; it enters completed only
   from quality_approved, and the only transition that leads to completed is
   the forward transition complete_workflow. *)
C40_CompletedAfterAllStages ==
    /\ [](/\ fsmState = "completed" => Stages \subseteq fsmVisited
          /\ coreFsmState = "completed" => Stages \subseteq coreFsmVisited
          /\ IntoCompleted(CodeGenerationFSM) \cup IntoCompleted(CodeGenerationWorkflow)
                 = {<<"complete_workflow", "quality_approved", "completed">>})
    /\ [][/\ (fsmState' = "completed" /\ fsmState # "completed")
                 => fsmState = "quality_approved"
          /\ (coreFsmState' = "completed" /\ coreFsmState # "completed")
                 => coreFsmState = "quality_approved"]_vars

C40_Witness ==
    /\ fsmState = "completed"
    /\ coreFsmState = "completed"
    /\ fsmVisited = Stages \cup {"completed"}

-----------------------------------------------------------------------------
(* Properties of runs that have failed *)

\* a step in which call c has had its dispatcher called for an answer
TurnTaken(c) == calls[c].selected \in AgentNames /\ calls'[c] # calls[c]

(* C31: once the state machine of a run is in failed, no step changes its
   state, its stored results, its error list or its retry counter, and no
   dispatcher call that works on the run returns a participant. *)
C31_FailedIsFinal ==
    [][\A c \in Calls :
          /\ runs[c].wfState = "failed" =>
                /\ runs'[c].wfState = "failed"
                /\ runs'[c].data = runs[c].data
                /\ runs'[c].errors = runs[c].errors
                /\ runs'[c].retry_count = runs[c].retry_count
          /\ (TurnTaken(c) /\ runs[RunOf(c)].wfState = "failed") =>
                calls'[c].selected \notin AgentNames]_vars

-----------------------------------------------------------------------------
(* Properties of the choice of the next speaker *)

\* the state machine of the dispatcher of this run
Machine == IF impl = "root" THEN CodeGenerationFSM ELSE CodeGenerationWorkflow

\* the participant assigned to a state; None for a state that has none
AssignedTo(state) == IF StateToAgent(state) # NULL THEN StateToAgent(state) ELSE None

\* the participant after name in the chain; None for the last and for other names
ChainSuccessor(name) ==
    IF ChainIndex(name) # 0 /\ ChainIndex(name) < Len(Chain)
    THEN Chain[ChainIndex(name) + 1] ELSE None

\* the same message without a hint
Unhinted(m) == [m EXCEPT !.next_agent = NULL]

(* C33 as stated: for a status=success result that names a registered
   next_agent the dispatcher returns the named participant; a transition it
   fires is the one of the participant that produced the result; for a
   result whose next_agent is null it returns the participant assigned to
   the state after the transition. *)
C33_HintHonoured ==
    AwaitingAnswer =>
        \A m \in SuccessResults :
            LET o == SpeakerSelection(m) IN
            /\ m.next_agent \in AgentNames => o.ret = m.next_agent
            /\ o.attempt = "fired" =>
                   <<ProgressEvent(Producer(impl, selected, m)), wfState, o.run.wfState>>
                       \in Machine
            /\ m.next_agent = NULL => o.ret = AssignedTo(o.run.wfState)

(* C33 amended: the transition that a status=success result fires, and
   whether it fires one, never depends on its next_agent.  The core
   dispatcher returns the participant the result names, fires the
   transition of the participant that produced the result, and for a null
   next_agent returns the participant assigned to the state after the
   transition.  The root dispatcher does not read next_agent: it returns
   what it returns for the same result without it, and a participant it
   returns is the successor in the chain of the participant named in the
   result. *)
C33_HintHonouredByCore ==
    AwaitingAnswer =>
        \A m \in SuccessResults :
            LET o == SpeakerSelection(m)
                plain == SpeakerSelection(Unhinted(m))
            IN  /\ o.run.wfState = plain.run.wfState
                /\ o.attempt = plain.attempt
                /\ impl = "core" =>
                       /\ m.next_agent \in AgentNames => o.ret = m.next_agent
                       /\ o.attempt = "fired" =>
                              <<ProgressEvent(selected), wfState, o.run.wfState>>
                                  \in CodeGenerationWorkflow
                       /\ m.next_agent = NULL => o.ret = AssignedTo(o.run.wfState)
                /\ impl = "root" =>
                       /\ o.ret = plain.ret
                       /\ o.ret \in AgentNames => o.ret = ChainSuccessor(m.agent)

C33_Witness ==
    /\ impl = "core"
    /\ handled = "success"
    /\ attempt = "fired"
    /\ wfState = "requirements_analyzed"
    /\ selected = "Executor"

(* C38: in every non-terminal state of a run in which the participant
   assigned to the state has been selected, a status=success result of that
   participant with a null next_agent makes the dispatcher fire a transition
   to the immediately following stage and, unless that is completed, return
   the participant assigned to it. *)
C38_StageAgentAdvances ==
    (AwaitingAnswer /\ wfState \notin FinalStates /\ selected = AssignedTo(wfState)) =>
        \A r \in Payloads :
            LET o == SpeakerSelection(Envelope(selected, "success", r, NULL)) IN
            /\ o.attempt = "fired"
            /\ StageIndex(o.run.wfState) = StageIndex(wfState) + 1
            /\ o.run.wfState # "completed" => o.ret = AssignedTo(o.run.wfState)

-----------------------------------------------------------------------------
(* Properties of the registry of participants *)

\* get_agent gives the participant of each registered name and None otherwise
GetAgentByName ==
    /\ \A n \in AgentFieldValues :
           RegistryGet(agents, n) = (IF n \in DOMAIN agents THEN n ELSE None)
    /\ got # NothingGot => got.agent = RegistryGet(agents, got.name)

(* C32 as stated: the registry of an orchestrator has exactly the nine
   roles, each stored under its own name; get_agent returns the participant
   of a registered name and None for any other name; no step changes the
   registry once it is built. *)
C32_RegistryOfNine ==
    /\ [](Built => (DOMAIN agents = AgentNames /\ GetAgentByName))
    /\ [][Built => agents' = agents]_vars

(* C32 amended: the registry of the core orchestrator has exactly the nine
   roles; that of the root orchestrator has the Executor and those of the
   other eight whose tier has a model configuration, all nine when every
   tier has one.  Each participant is stored under its own name, get_agent
   returns the participant of a registered name and None for any other
   name, it agrees with the get_agent of the dispatchers when the registry
   has all nine, and no step changes the registry once it is built. *)
C32_RegistryOfConfigured ==
    /\ [](Built =>
            /\ impl = "core" => DOMAIN agents = AgentNames
            /\ impl = "root" =>
                   DOMAIN agents = {"Executor"} \cup
                       {a \in AgentNames \ {"Executor"} :
                           AgentTierMapping(a) \in model_configs}
            /\ {"high_performance", "standard", "local"} \subseteq model_configs
                   => DOMAIN agents = AgentNames
            /\ DOMAIN agents = AgentNames =>
                   \A n \in AgentFieldValues : RegistryGet(agents, n) = GetAgent(n)
            /\ GetAgentByName)
    /\ [][Built => agents' = agents]_vars

C32_Witness ==
    /\ impl = "root"
    /\ DOMAIN agents = AgentNames
    /\ got = [name |-> "Unknown", agent |-> None]
    /\ selected = "SystemArchitect"
    /\ retry_count = 1

=============================================================================
